---------------------------- MODULE Spec2Model ----------------------------
(***************************************************************************)
(* A model of the request-execution and error-mapping layer of             *)
(* subzerobo/go-apicurio-sdk: input validation, request construction,      *)
(* Client.Do, and the response interpreters handleResponse and             *)
(* handleRawResponse, together with the API operations that call them.     *)
(*                                                                         *)
(* Strings that the code inspects character by character (identifiers,     *)
(* version expressions, URLs) are sequences of one-character strings.      *)
(* Texts the code only passes along or hands to encoding/json (bodies,     *)
(* header values) are TLA+ strings.                                        *)
(***************************************************************************)
EXTENDS Integers, Sequences, FiniteSets, TLC

VARIABLES
    client,     \* the shared *client.Client: BaseURL, HTTPClient, AuthHeader
    pc,         \* position of the one caller: "idle", "sent", "done"
    op,         \* name of the API method in progress ("" when idle)
    args,       \* the arguments of the call in progress
    req,        \* the *http.Request as the HTTP transport received it
    sends,      \* number of times the transport was invoked during this call
    resp,       \* the *http.Response the transport returned
    ret,        \* what the API method returned: [value, err]
    vIn,        \* validateInput: the input string
    vPat,       \* validateInput: which compiled pattern
    vDone,      \* validateInput: whether it has run
    vOut,       \* validateInput: the error it returned
    q,          \* ToQuery: the parameter struct, its query, the re-parsed query
    nc          \* NewClient: the arguments of the call, and whether it was made

vars == <<client, pc, op, args, req, sends, resp, ret, vIn, vPat, vDone, vOut, q, nc>>

opVars == <<client, pc, op, args, req, sends, resp, ret>>
valVars == <<vIn, vPat, vDone, vOut>>

-----------------------------------------------------------------------------
(* Bounds of the model and constants of the program *)

\* longest input string enumerated exhaustively over Alphabet
MaxLen == 3

\* regexGroupIDArtifactID = `^.{1,512}$`
MaxIDLen == 512

\* regexVersion = `[a-zA-Z0-9._\-+]{1,256}`
MaxVersionLen == 256

-----------------------------------------------------------------------------
(* Character strings *)

LF == "\n"

Lower == {"a","b","c","d","e","f","g","h","i","j","k","l","m",
          "n","o","p","q","r","s","t","u","v","w","x","y","z"}
Upper == {"A","B","C","D","E","F","G","H","I","J","K","L","M",
          "N","O","P","Q","R","S","T","U","V","W","X","Y","Z"}
Digit == {"0","1","2","3","4","5","6","7","8","9"}

\* the characters the inputs of the model are made of
Alphabet == {"a", "Z", "7", ".", "_", "-", "+", " ", "/", LF}

\* the character c, n times
Rep(c, n) == [i \in 1..n |-> c]

Strs(n) == UNION {[1..k -> Alphabet] : k \in 0..n}

\* strings around the two length limits: all letters, and with one other
\* character in last place
LongStrs ==
    UNION {
        {Rep("a", n)} \cup {Rep("a", n - 1) \o <<c>> : c \in {" ", "/", LF}}
        : n \in {MaxVersionLen, MaxVersionLen + 1, MaxIDLen, MaxIDLen + 1} }

Inputs == Strs(MaxLen) \cup LongStrs

-----------------------------------------------------------------------------
(* Errors.  A Go error value is its chain of wrapping messages (outermost  *)
(* first) and the error at the bottom of the chain.                        *)

BaseErr(t) == [chain |-> <<>>, type |-> t, status |-> 0, title |-> ""]

NoErr == BaseErr("nil")

ErrInvalidInput == BaseErr("ErrInvalidInput")
ErrArtifactNotFound == BaseErr("ErrArtifactNotFound")
ErrMethodNotAllowed == BaseErr("ErrMethodNotAllowed")
ErrUnknownArtifactType == BaseErr("ErrUnknownArtifactType")

\* errors.Wrap / errors.Wrapf / fmt.Errorf("...: %w"): a nil error stays nil
Wrap(err, msg) ==
    IF err = NoErr THEN NoErr ELSE [err EXCEPT !.chain = <<msg>> \o @]

\* errors.Is(err, target) for a sentinel target
Is(err, target) == err # NoErr /\ err.type = target.type

\* errors.As(err, &apiErr) with apiErr of type *models.APIError
AsAPIError(err) == err.type = "APIError"

\* the outermost message of the error
Label(err) == IF err.chain = <<>> THEN "" ELSE Head(err.chain)

-----------------------------------------------------------------------------
(* Validation helpers *)

\* `.` compiled with the s flag: any character at all
DotAll(c) == c = c

\* `.` of Go's regexp without the s flag: any character but a line feed
Dot(c) == c # LF

\* [a-zA-Z0-9._\-+]
VersionClass == Lower \cup Upper \cup Digit \cup {".", "_", "-", "+"}

\* regexGroupIDArtifactID.MatchString: ^ and $ anchor the repetition to the
\* whole input
regexGroupIDArtifactID(input) ==
    /\ Len(input) >= 1
    /\ Len(input) <= MaxIDLen
    /\ \A i \in 1..Len(input) : Dot(input[i])

\* regexVersion.MatchString: the pattern has no anchors, so it matches when
\* some substring of the input is a run of 1 to MaxVersionLen class characters
Min(a, b) == IF a < b THEN a ELSE b

regexVersion(input) ==
    \E i \in 1..Len(input) :
        \E n \in 1..Min(MaxVersionLen, Len(input) - i + 1) :
            \A k \in i..(i + n - 1) : input[k] \in VersionClass

MatchString(regex, input) ==
    CASE regex = "regexGroupIDArtifactID" -> regexGroupIDArtifactID(input)
      [] regex = "regexVersion" -> regexVersion(input)

validateInput(input, regex, name) ==
    IF ~MatchString(regex, input) THEN Wrap(ErrInvalidInput, name) ELSE NoErr

Patterns == {"regexGroupIDArtifactID", "regexVersion"}

-----------------------------------------------------------------------------
(* encoding/json, as far as the code uses it.  A body text is scanned into  *)
(* the first JSON value it holds; what follows the value is remembered,     *)
(* because json.Unmarshal rejects it and json.Decoder.Decode does not.      *)

Keys == {"status", "title", "count", "versions", "version", "globalId",
         "artifact", "artifacts", "config", "a"}

Absent == [t |-> "absent", n |-> 0, s |-> ""]
Num(n) == [t |-> "num", n |-> n, s |-> ""]
Str(s) == [t |-> "str", n |-> 0, s |-> s]
\* an array of n elements
Arr(n) == [t |-> "arr", n |-> n, s |-> ""]
\* a nested object
Sub(s) == [t |-> "obj", n |-> 0, s |-> s]

\* a JSON object: the keys it does not hold are Absent
Obj(f) == [k \in Keys |-> IF k \in DOMAIN f THEN f[k] ELSE Absent]

NoObj == [k \in Keys |-> Absent]

\* the body texts the server of the model answers with
BodyNotFound == "{\"status\":404,\"title\":\"Not found\"}"
BodyConflict == "{\"status\":409,\"title\":\"Conflict\"}"
BodyEmpty == ""
BodyGarbage == "<html>Bad Gateway</html>"
BodyEmptyObject == "{}"
BodyNull == "null"
BodyBadStatusType == "{\"status\":\"oops\",\"title\":\"Oops\"}"
BodyVersionList == "{\"count\":1,\"versions\":[{\"version\":\"1.0\"}]}"
BodyBadCount == "{\"count\":\"one\",\"versions\":[]}"
BodyReferences == "[{\"groupId\":\"g\",\"artifactId\":\"a\"}]"
BodyMetadata == "{\"version\":\"1.0\",\"globalId\":7}"
BodyArtifact == "{\"artifact\":{\"artifactId\":\"a\"}}"
BodyRule == "{\"config\":\"FULL\"}"
BodyArtifactList == "{\"artifacts\":[{\"artifactId\":\"a\"}],\"count\":1}"
BodyContent == "{\"a\":\"1\"}"
BodyTwoValues == "{\"status\":404,\"title\":\"Not found\"} trailing"

Doc(shape, obj, n, rest) == [shape |-> shape, obj |-> obj, n |-> n, rest |-> rest]

\* the scanner of encoding/json on the texts above
Scan(text) ==
    CASE text = BodyNotFound ->
            Doc("object", Obj([status |-> Num(404), title |-> Str("Not found")]), 0, FALSE)
      [] text = BodyConflict ->
            Doc("object", Obj([status |-> Num(409), title |-> Str("Conflict")]), 0, FALSE)
      [] text = BodyEmpty -> Doc("eof", NoObj, 0, FALSE)
      [] text = BodyGarbage -> Doc("invalid", NoObj, 0, FALSE)
      [] text = BodyEmptyObject -> Doc("object", NoObj, 0, FALSE)
      [] text = BodyNull -> Doc("null", NoObj, 0, FALSE)
      [] text = BodyBadStatusType ->
            Doc("object", Obj([status |-> Str("oops"), title |-> Str("Oops")]), 0, FALSE)
      [] text = BodyVersionList ->
            Doc("object", Obj([count |-> Num(1), versions |-> Arr(1)]), 0, FALSE)
      [] text = BodyBadCount ->
            Doc("object", Obj([count |-> Str("one"), versions |-> Arr(0)]), 0, FALSE)
      [] text = BodyReferences -> Doc("array", NoObj, 1, FALSE)
      [] text = BodyMetadata ->
            Doc("object", Obj([version |-> Str("1.0"), globalId |-> Num(7)]), 0, FALSE)
      [] text = BodyArtifact ->
            Doc("object", Obj([artifact |-> Sub("a")]), 0, FALSE)
      [] text = BodyRule -> Doc("object", Obj([config |-> Str("FULL")]), 0, FALSE)
      [] text = BodyArtifactList ->
            Doc("object", Obj([artifacts |-> Arr(1), count |-> Num(1)]), 0, FALSE)
      [] text = BodyContent -> Doc("object", Obj([a |-> Str("1")]), 0, FALSE)
      [] text = BodyTwoValues ->
            Doc("object", Obj([status |-> Num(404), title |-> Str("Not found")]), 0, TRUE)

\* the Go types the code decodes into: the JSON keys of a struct with the
\* kind of each field; a slice type has no keys
Fields(target) ==
    CASE target = "APIError" -> [status |-> "num", title |-> "str"]
      [] target = "ArtifactVersionListResponse" -> [count |-> "num", versions |-> "arr"]
      [] target = "ArtifactVersionMetadata" -> [version |-> "str", globalId |-> "num"]
      [] target = "CreateArtifactResponse" -> [artifact |-> "obj"]
      [] target = "SearchArtifactsResponse" -> [artifacts |-> "arr", count |-> "num"]
      [] target = "GlobalRuleResponse" -> [config |-> "str"]
      [] target = "[]ArtifactReference" -> <<>>

IsSlice(target) == target = "[]ArtifactReference"

Targets == {"ArtifactVersionListResponse", "ArtifactVersionMetadata",
            "CreateArtifactResponse", "SearchArtifactsResponse",
            "GlobalRuleResponse", "[]ArtifactReference"}

ZeroOf(kind) ==
    CASE kind = "num" -> Num(0)
      [] kind = "str" -> Str("")
      [] kind = "arr" -> Arr(0)
      [] kind = "obj" -> Sub("")

\* a Go value: nil, a decoded value of a target type, or an ArtifactContent
Nil == [kind |-> "nil", target |-> "", obj |-> NoObj, n |-> 0,
        Content |-> "", ArtifactType |-> ""]

Decoded(target, obj, n) ==
    [Nil EXCEPT !.kind = "decoded", !.target = target, !.obj = obj, !.n = n]

ArtifactContent(content, artifactType) ==
    [Nil EXCEPT !.kind = "content", !.Content = content, !.ArtifactType = artifactType]

\* the zero value of a target type, as `var x T` declares it
ZeroValue(target) ==
    Decoded(target,
            [k \in Keys |-> IF k \in DOMAIN Fields(target)
                            THEN ZeroOf(Fields(target)[k]) ELSE Absent],
            0)

\* a Store that leaves the Go value as it was, whatever the JSON value holds
StoreNothing(doc, target) == [val |-> ZeroValue(target), err |-> NoErr]

\* storing a scanned JSON value into a Go value of the target type: null
\* leaves the value as it was, an object fills the fields it names and
\* ignores the others, and a JSON value of another kind than the Go type
\* is an UnmarshalTypeError
Store(doc, target) ==
    LET f == Fields(target)
        mismatch == \E k \in DOMAIN f : doc.obj[k].t \notin {"absent", f[k]}
    IN  CASE doc.shape = "null" -> [val |-> ZeroValue(target), err |-> NoErr]
          [] doc.shape = "array" /\ IsSlice(target) ->
                [val |-> Decoded(target, NoObj, doc.n), err |-> NoErr]
          [] doc.shape = "object" /\ ~IsSlice(target) /\ ~mismatch ->
                [val |-> Decoded(target,
                                 [k \in Keys |->
                                     IF k \notin DOMAIN f THEN Absent
                                     ELSE IF doc.obj[k].t = "absent" THEN ZeroOf(f[k])
                                     ELSE doc.obj[k]],
                                 0),
                 err |-> NoErr]
          [] OTHER -> [val |-> ZeroValue(target), err |-> BaseErr("json.UnmarshalTypeError")]

\* json.Unmarshal(data, &v): the data must be one JSON value and nothing else
UnmarshalDoc(doc, target) ==
    IF doc.shape \in {"eof", "invalid"} \/ doc.rest
    THEN [val |-> ZeroValue(target), err |-> BaseErr("json.SyntaxError")]
    ELSE Store(doc, target)

Unmarshal(text, target) == UnmarshalDoc(Scan(text), target)

\* json.NewDecoder(r).Decode(&v): reads the first JSON value of the stream
DecodeDoc(body, doc, target) ==
    CASE ~body.readable ->
            [val |-> ZeroValue(target), err |-> BaseErr("io.ErrUnexpectedEOF")]
      [] doc.shape = "eof" -> [val |-> ZeroValue(target), err |-> BaseErr("io.EOF")]
      [] doc.shape = "invalid" ->
            [val |-> ZeroValue(target), err |-> BaseErr("json.SyntaxError")]
      [] OTHER -> Store(doc, target)

Decode(body, target) == DecodeDoc(body, Scan(body.text), target)

\* io.ReadAll(resp.Body)
ReadAll(body) ==
    IF body.readable THEN [data |-> body.text, err |-> NoErr]
    ELSE [data |-> "", err |-> BaseErr("io.ErrUnexpectedEOF")]

-----------------------------------------------------------------------------
(* HTTP responses and the response interpreters of apis/helpers.go *)

StatusOK == 200
StatusNoContent == 204
StatusNotFound == 404
StatusMethodNotAllowed == 405
StatusInternalServerError == 500

\* a header the response does not carry; Header.Get answers "" for it
NoHeader == "<absent>"

HeaderGet(h) == IF h = NoHeader THEN "" ELSE h

\* models.ArtifactType: the nine supported type names
ArtifactTypes == {"AVRO", "PROTOBUF", "JSON", "KCONNECT", "OPENAPI",
                  "ASYNCAPI", "GRAPHQL", "WSDL", "XSD"}

\* a ParseArtifactType that folds the case of the name before it compares
ParseArtifactTypeFoldCase(artifactType) ==
    LET upper == IF artifactType = "json" THEN "JSON" ELSE artifactType
    IN  IF upper \in ArtifactTypes
        THEN [artifactType |-> upper, err |-> NoErr]
        ELSE [artifactType |-> "", err |-> ErrUnknownArtifactType]

\* models.ParseArtifactType
ParseArtifactType(artifactType) ==
    IF artifactType \in ArtifactTypes
    THEN [artifactType |-> artifactType, err |-> NoErr]
    ELSE [artifactType |-> "", err |-> ErrUnknownArtifactType]

\* models.APIError as an error value
APIError(status, title) ==
    [chain |-> <<>>, type |-> "APIError", status |-> status, title |-> title]

\* a parseAPIError that takes Status from the HTTP status line
\* the outcome of parseAPIError once the body is read and unmarshalled;
\* status is the Status the APIError gets
ParsedAPIError(read, u, status) ==
    IF read.err # NoErr
    THEN [apiError |-> NoErr,
          err |-> Wrap(read.err, "failed to read error response body")]
    ELSE IF u.err # NoErr
    THEN [apiError |-> NoErr,
          err |-> Wrap(u.err, "failed to parse error response")]
    ELSE [apiError |-> APIError(status, u.val.obj["title"].s), err |-> NoErr]

UnmarshalAPIError(r) == Unmarshal(ReadAll(r.body).data, "APIError")

parseAPIErrorStatusLine(r) ==
    ParsedAPIError(ReadAll(r.body), UnmarshalAPIError(r), r.status)

parseAPIError(r) ==
    ParsedAPIError(ReadAll(r.body), UnmarshalAPIError(r),
                   UnmarshalAPIError(r).val.obj["status"].n)

parseArtifactTypeHeader(r) ==
    LET artifactTypeHeader == HeaderGet(r.artifactType)
        p == ParseArtifactType(artifactTypeHeader)
    IN  IF p.err # NoErr
        THEN [artifactType |-> "",
              err |-> Wrap(p.err, "invalid artifact type in response header")]
        ELSE [artifactType |-> p.artifactType, err |-> NoErr]

\* how far a function read the response body: not at all, the first JSON
\* value of it, or all of it
NotRead == "none"
ReadValue == "value"
ReadToEnd == "all"

\* errors.Wrap(err, msg), or err as it is where the code wraps with nothing
WrapWith(err, msg) == IF msg = "" THEN err ELSE Wrap(err, msg)

\* the body of handleResponse, with p the outcome of parseAPIError(resp), d
\* that of Decode(result) and label the message the parse error is wrapped
\* with.  The answer holds the error, the value stored through result, and
\* what happened to the body (the deferred Close, how far it was read).
Handled(r, expectedStatus, result, p, d, label) ==
    IF r.status # expectedStatus
    THEN [err |-> IF p.err # NoErr THEN WrapWith(p.err, label) ELSE p.apiError,
          result |-> Nil, closed |-> TRUE, read |-> ReadToEnd]
    ELSE IF result # "nil" /\ r.status = expectedStatus
    THEN IF d.err # NoErr
         THEN [err |-> Wrap(d.err, "failed to parse response body"),
               result |-> Nil, closed |-> TRUE, read |-> ReadValue]
         ELSE [err |-> NoErr, result |-> d.val, closed |-> TRUE, read |-> ReadValue]
    ELSE [err |-> NoErr, result |-> Nil, closed |-> TRUE, read |-> NotRead]

\* a handleResponse that returns the parse error as it is, without the
\* "unexpected server error" label
handleResponseBareError(r, expectedStatus, result) ==
    Handled(r, expectedStatus, result, parseAPIError(r), Decode(r.body, result), "")

\* a handleResponse that decodes the body whenever the status is the
\* expected one, also when the caller passed no target: Decode(nil) is an
\* InvalidUnmarshalError
handleResponseAlwaysDecoding(r, expectedStatus, result) ==
    Handled(r, expectedStatus, IF result = "nil" THEN "interface{}" ELSE result,
            parseAPIError(r),
            IF result = "nil"
            THEN [val |-> Nil, err |-> BaseErr("json.InvalidUnmarshalError")]
            ELSE Decode(r.body, result),
            "unexpected server error")

\* a handleResponse that drops the error of Decode
handleResponseIgnoringDecode(r, expectedStatus, result) ==
    Handled(r, expectedStatus, result, parseAPIError(r),
            [Decode(r.body, result) EXCEPT !.err = NoErr],
            "unexpected server error")

\* handleResponse(resp, expectedStatus, result): result is the name of the
\* target type, or "nil" when the caller passes no target
handleResponse(r, expectedStatus, result) ==
    Handled(r, expectedStatus, result, parseAPIError(r), Decode(r.body, result),
            "unexpected server error")

\* the body of handleRawResponse, with p the outcome of parseAPIError(resp),
\* c that of io.ReadAll(resp.Body) and content the string made of the bytes
HandledRaw(r, expectedStatus, p, c, content) ==
    IF r.status # expectedStatus
    THEN [content |-> "",
          err |-> IF p.err # NoErr
                  THEN Wrap(p.err, "unexpected server error")
                  ELSE p.apiError,
          closed |-> TRUE, read |-> ReadToEnd]
    ELSE IF c.err # NoErr
    THEN [content |-> "", err |-> Wrap(c.err, "failed to read response body"),
          closed |-> TRUE, read |-> ReadToEnd]
    ELSE [content |-> content, err |-> NoErr, closed |-> TRUE, read |-> ReadToEnd]

\* a handleRawResponse that JSON-decodes the body instead of copying it: a
\* body that is not a JSON string gives no content
handleRawResponseDecoding(r, expectedStatus) ==
    HandledRaw(r, expectedStatus, parseAPIError(r), ReadAll(r.body), "")

handleRawResponse(r, expectedStatus) ==
    HandledRaw(r, expectedStatus, parseAPIError(r), ReadAll(r.body),
               ReadAll(r.body).data)

-----------------------------------------------------------------------------
(* client.Client: construction and Do *)

ContentTypeJSON == "application/json"
ContentTypeAll == "*/*"

BaseURL == "http://localhost:9080/apis/registry/v3"

\* defaultHTTPClient(): Timeout is in seconds
DefaultTimeout == 30
CustomTimeout == 10

defaultHTTPClient == [name |-> "default", Timeout |-> DefaultTimeout]
customHTTPClient == [name |-> "custom", Timeout |-> CustomTimeout]

WithHTTPClient(httpClient) == [option |-> "WithHTTPClient", httpClient |-> httpClient, authHeader |-> ""]
WithAuthHeader(authHeader) == [option |-> "WithAuthHeader", httpClient |-> defaultHTTPClient, authHeader |-> authHeader]

\* opt(client)
ApplyOption(c, opt) ==
    IF opt.option = "WithHTTPClient"
    THEN [c EXCEPT !.HTTPClient = opt.httpClient]
    ELSE [c EXCEPT !.AuthHeader = opt.authHeader]

RECURSIVE ApplyOptions(_, _)
ApplyOptions(c, options) ==
    IF options = <<>> THEN c
    ELSE ApplyOptions(ApplyOption(c, Head(options)), Tail(options))

\* a NewClient that installs the defaults after the options ran
NewClientDefaultsLast(baseURL, options) ==
    [ApplyOptions([BaseURL |-> "", HTTPClient |-> defaultHTTPClient, AuthHeader |-> ""],
                  options)
     EXCEPT !.BaseURL = baseURL, !.HTTPClient = defaultHTTPClient]

NewClient(baseURL, options) ==
    ApplyOptions([BaseURL |-> baseURL, HTTPClient |-> defaultHTTPClient, AuthHeader |-> ""],
                 options)

\* number of options a caller of the model passes to NewClient
MaxOptions == 2

Options == {WithHTTPClient(customHTTPClient),
            WithAuthHeader("Bearer test-token"),
            WithAuthHeader("")}

OptionLists == UNION {[1..k -> Options] : k \in 0..MaxOptions}

\* the arguments of a call of NewClient, none yet
NoNewClient == [baseURL |-> "", options |-> <<>>, done |-> FALSE]

\* a nil *http.Client and the zero Client
nilHTTPClient == [name |-> "nil", Timeout |-> 0]
NoClient == [BaseURL |-> "", HTTPClient |-> nilHTTPClient, AuthHeader |-> ""]

\* what the callers of SpecNewClient pass to NewClient
NewClientURLs == {BaseURL, "https://example.com"}
NewClientOptions ==
    Options \cup {WithHTTPClient(nilHTTPClient), WithAuthHeader("Basic dXNlcjpwdw==")}
NewClientOptionLists == UNION {[1..k -> NewClientOptions] : k \in 0..MaxOptions}

\* an *http.Request: the headers hold NoHeader where the header is not set
Request(method, url, body, contentType) ==
    [method |-> method, url |-> url, body |-> body,
     ContentType |-> contentType, Authorization |-> NoHeader]

NoReq == Request("", <<>>, "", NoHeader)

\* a Do that attaches the authorization and leaves Content-Type as it came
DoKeepContentType(c, r) ==
    IF c.AuthHeader # ""
    THEN [r EXCEPT !.Authorization = c.AuthHeader]
    ELSE r

\* a Do that sets the Authorization header whether AuthHeader is empty or not
DoAlwaysAuthorization(c, r) ==
    [r EXCEPT !.Authorization = c.AuthHeader, !.ContentType = ContentTypeJSON]

\* Client.Do up to the call of c.HTTPClient.Do: the request the transport gets
Do(c, r) ==
    LET authed == IF c.AuthHeader # ""
                  THEN [r EXCEPT !.Authorization = c.AuthHeader]
                  ELSE r
    IN  [authed EXCEPT !.ContentType = ContentTypeJSON]

-----------------------------------------------------------------------------
(* Request construction: the executeRequest methods *)

\* the body argument of executeRequest (an interface{}): nil, a string, a
\* []byte, or a structured value
NilBody == [kind |-> "nil", data |-> ""]
StringBody(text) == [kind |-> "string", data |-> text]
BytesBody(text) == [kind |-> "bytes", data |-> text]
StructBody(name) == [kind |-> "struct", data |-> name]

\* json.Marshal of the values the operations pass: nil encodes as null, a
\* []byte as a base64 string, a string as a JSON string, a struct as an object
Marshal(body) ==
    CASE body.kind = "nil" -> "null"
      [] body = BytesBody(BodyContent) -> "\"eyJhIjoiMSJ9\""
      [] body = BytesBody("") -> "\"\""
      [] body = StringBody(BodyContent) -> "\"{\\\"a\\\":\\\"1\\\"}\""
      [] body = StringBody("") -> "\"\""
      [] body = StructBody("CreateContentRequest") -> "{\"content\":\"{}\",\"contentType\":\"application/json\"}"
      [] body = StructBody("UpdateArtifactMetadataRequest") -> "{\"name\":\"n\",\"description\":\"d\"}"
      [] body = StructBody("CreateArtifactRequest") -> "{\"artifactId\":\"a\",\"artifactType\":\"JSON\"}"

HexDigit == Digit \cup {"a","b","c","d","e","f","A","B","C","D","E","F"}

\* http.NewRequestWithContext fails when url.Parse rejects the URL: a control
\* character anywhere, or a % that two hexadecimal digits do not follow
InvalidURL(url) ==
    \E i \in 1..Len(url) :
        \/ url[i] = LF
        \/ /\ url[i] = "%"
           /\ ~(i + 2 <= Len(url) /\ url[i + 1] \in HexDigit /\ url[i + 2] \in HexDigit)

\* an executeRequest that JSON-encodes every body, a string or []byte too
executeRequestMarshalAll(c, method, url, body) ==
    IF InvalidURL(url)
    THEN [err |-> Wrap(BaseErr("url.Error"), "failed to create HTTP request"),
          req |-> NoReq]
    ELSE [err |-> NoErr,
          req |-> Do(c, Request(method, url, Marshal(body),
                                IF body.kind # "nil" THEN ContentTypeJSON ELSE NoHeader))]

\* executeRequest of VersionsAPI, AdminAPI and the MetadataAPI of part_003:
\* err, or the request as Client.Do hands it to the transport
executeRequest(c, method, url, body) ==
    LET raw == body.kind \in {"string", "bytes"}
        contentType == IF raw THEN ContentTypeAll ELSE ContentTypeJSON
        reqBody == IF raw THEN body.data ELSE Marshal(body)
        r == Request(method, url, reqBody,
                     IF body.kind # "nil" THEN contentType ELSE NoHeader)
    IN  IF InvalidURL(url)
        THEN [err |-> Wrap(BaseErr("url.Error"), "failed to create HTTP request"),
              req |-> NoReq]
        ELSE [err |-> NoErr, req |-> Do(c, r)]

\* executeRequest of ArtifactsAPI (part_004) and of MetadataAPI (metadata.go):
\* every body that is not nil is JSON-encoded
executeRequestJSON(c, method, url, body) ==
    LET reqBody == IF body.kind # "nil" THEN Marshal(body) ELSE ""
        r == Request(method, url, reqBody,
                     IF body.kind # "nil" THEN ContentTypeJSON ELSE NoHeader)
    IN  IF InvalidURL(url)
        THEN [err |-> Wrap(BaseErr("url.Error"), "failed to create HTTP request"),
              req |-> NoReq]
        ELSE [err |-> NoErr, req |-> Do(c, r)]

-----------------------------------------------------------------------------
(* The API operations.  A call validates its inputs, builds the URL and the *)
(* request and hands it to the transport (the operation's action); when the *)
(* transport answers, the rest of the method interprets the response (the   *)
(* operation's ...Result operator, applied by TransportRespond).            *)

\* the identifiers and version expressions the callers of the model pass
IDs == {<<>>, <<"g">>, <<"a", "/", "b">>, <<"x", LF>>}
VersionExprs == {<<>>, <<"1", ".", "0">>, <<"1", " ", "0">>, <<"/">>, <<"1", LF>>}
ContentHashes == {<<"h">>, <<"%">>}
ContentIDs == {7}
Contents == {BodyContent, ""}
Rules == {<<"VALIDITY">>}

Args(g, a, v, id, body) ==
    [groupID |-> g, artifactID |-> a, versionExpression |-> v, id |-> id, body |-> body]

NoArgs == Args(<<>>, <<>>, <<>>, <<>>, NilBody)

\* fmt.Sprintf("%d", n) for a content ID that is not negative
DigitChars == <<"0", "1", "2", "3", "4", "5", "6", "7", "8", "9">>

RECURSIVE Itoa(_)
Itoa(n) ==
    IF n < 10 THEN <<DigitChars[n + 1]>>
    ELSE Itoa(n \div 10) \o <<DigitChars[(n % 10) + 1]>>

\* the first error of a sequence of validations, as the chain of
\* `if err := validateInput(...); err != nil { return err }`
RECURSIVE FirstErr(_)
FirstErr(errs) ==
    IF errs = <<>> THEN NoErr
    ELSE IF Head(errs) # NoErr THEN Head(errs)
    ELSE FirstErr(Tail(errs))

\* validateInput of part_004 (ArtifactsAPI): regexValidation = `^.{1,512}$`
validateInputArtifacts(input, name) ==
    IF ~regexGroupIDArtifactID(input) THEN Wrap(ErrInvalidInput, name) ELSE NoErr

ValidateGroupArtifact(g, a) ==
    FirstErr(<<validateInput(g, "regexGroupIDArtifactID", "Group ID"),
               validateInput(a, "regexGroupIDArtifactID", "Artifact ID")>>)

ValidateGroupArtifactVersion(g, a, v) ==
    FirstErr(<<validateInput(g, "regexGroupIDArtifactID", "Group ID"),
               validateInput(a, "regexGroupIDArtifactID", "Artifact ID"),
               validateInput(v, "regexVersion", "Version Expression")>>)

\* the URLs: the base URL and the fixed segments are single elements, the
\* caller's strings are spliced in character by character
VersionURL(c, g, a, v, suffix) ==
    <<c.BaseURL, "/groups/">> \o g \o <<"/artifacts/">> \o a \o <<"/versions/">> \o v \o suffix

ArtifactURL(c, g, a, suffix) ==
    <<c.BaseURL, "/groups/">> \o g \o <<"/artifacts/">> \o a \o suffix

NoResp == [status |-> 0, artifactType |-> NoHeader,
           body |-> [text |-> "", readable |-> TRUE]]

\* what became of the response body during the call, and which interpreter
\* was given the response
BodyIO(closed, read, via) == [closed |-> closed, read |-> read, via |-> via]

NoRet == [value |-> Nil, err |-> NoErr, io |-> BodyIO(FALSE, NotRead, "none")]

Return(value, err, io) == [value |-> value, err |-> err, io |-> io]

\* a models.RuleLevel, the result of AdminAPI.GetGlobalRule (not a pointer)
RuleLevel(level) == Decoded("RuleLevel", Obj([config |-> level]), 0)

\* what an operation returns beside an error that arose before any response:
\* nil, or "" where the result is a RuleLevel
ZeroResult(name) ==
    IF name = "AdminAPI.GetGlobalRule" THEN RuleLevel(Str("")) ELSE Nil

\* the call returns without a response
Fails(name, err) == Return(ZeroResult(name), err, BodyIO(FALSE, NotRead, "none"))

\* the common shape of an operation's action: validation error, request
\* construction error, or the request handed to the transport
Start(name, a, verr, built) ==
    /\ pc = "idle"
    /\ op' = name
    /\ args' = a
    /\ resp' = NoResp
    /\ IF verr # NoErr
       THEN pc' = "done" /\ ret' = Fails(name, verr) /\ req' = NoReq /\ sends' = sends
       ELSE IF built.err # NoErr
       THEN pc' = "done" /\ ret' = Fails(name, built.err) /\ req' = NoReq /\ sends' = sends
       ELSE pc' = "sent" /\ ret' = NoRet /\ req' = built.req /\ sends' = sends + 1
    /\ UNCHANGED <<client, vIn, vPat, vDone, vOut, q, nc>>

\* the return after handleResponse answered h: `return zero, err` when it
\* failed, `return value, nil` when it did not
\* a return that hands back whatever was decoded, also next to an error
ReturnedWithError(h, zero, value) ==
    Return(value, h.err, BodyIO(h.closed, h.read, "handleResponse"))

Returned(h, zero, value) ==
    Return(IF h.err # NoErr THEN zero ELSE value, h.err,
           BodyIO(h.closed, h.read, "handleResponse"))

\* an operation that passes no target: `return handleResponse(resp, status, nil)`
EmptyResult(r, expectedStatus) ==
    Returned(handleResponse(r, expectedStatus, "nil"), Nil, Nil)

\* an operation that decodes into a target and returns a pointer to it
TargetResult(r, expectedStatus, target) ==
    Returned(handleResponse(r, expectedStatus, target), Nil,
             handleResponse(r, expectedStatus, target).result)

\* VersionsAPI.DeleteArtifactVersion
DeleteArtifactVersion(g, a, v) ==
    Start("VersionsAPI.DeleteArtifactVersion", Args(g, a, v, <<>>, NilBody),
          ValidateGroupArtifactVersion(g, a, v),
          executeRequest(client, "DELETE", VersionURL(client, g, a, v, <<>>), NilBody))

DeleteArtifactVersionResult(r) == EmptyResult(r, StatusNoContent)

\* VersionsAPI.GetArtifactVersionReferences, called with params = nil
GetArtifactVersionReferences(g, a, v) ==
    Start("VersionsAPI.GetArtifactVersionReferences", Args(g, a, v, <<>>, NilBody),
          ValidateGroupArtifactVersion(g, a, v),
          executeRequest(client, "GET",
                         VersionURL(client, g, a, v, <<"/references">>), NilBody))

GetArtifactVersionReferencesResult(r) == TargetResult(r, StatusOK, "[]ArtifactReference")

\* VersionsAPI.ListArtifactVersions, called with params = nil
ListArtifactVersions(g, a) ==
    Start("VersionsAPI.ListArtifactVersions", Args(g, a, <<>>, <<>>, NilBody),
          ValidateGroupArtifact(g, a),
          executeRequest(client, "GET", ArtifactURL(client, g, a, <<"/versions">>), NilBody))

\* `return &versionsResponse.Versions, nil`
VersionsOf(response) == Decoded("[]ArtifactVersion", NoObj, response.obj["versions"].n)

ListArtifactVersionsResult(r) ==
    Returned(handleResponse(r, StatusOK, "ArtifactVersionListResponse"), Nil,
             VersionsOf(handleResponse(r, StatusOK, "ArtifactVersionListResponse").result))

\* VersionsAPI.GetArtifactVersionContent, called with params = nil
GetArtifactVersionContent(g, a, v) ==
    Start("VersionsAPI.GetArtifactVersionContent", Args(g, a, v, <<>>, NilBody),
          ValidateGroupArtifactVersion(g, a, v),
          executeRequest(client, "GET",
                         VersionURL(client, g, a, v, <<"/content">>), NilBody))

\* the return after handleRawResponse answered h and parseArtifactTypeHeader t
ReturnedContent(h, t) ==
    Return(IF h.err # NoErr \/ t.err # NoErr THEN Nil
           ELSE ArtifactContent(h.content, t.artifactType),
           IF h.err # NoErr THEN h.err ELSE t.err,
           BodyIO(h.closed, h.read, "handleRawResponse"))

GetArtifactVersionContentResult(r) ==
    ReturnedContent(handleRawResponse(r, StatusOK), parseArtifactTypeHeader(r))

\* VersionsAPI.UpdateArtifactVersionContent
UpdateArtifactVersionContent(g, a, v) ==
    Start("VersionsAPI.UpdateArtifactVersionContent",
          Args(g, a, v, <<>>, StructBody("CreateContentRequest")),
          ValidateGroupArtifactVersion(g, a, v),
          executeRequest(client, "PUT", VersionURL(client, g, a, v, <<"/content">>),
                         StructBody("CreateContentRequest")))

UpdateArtifactVersionContentResult(r) == EmptyResult(r, StatusNoContent)

\* VersionsAPI.SearchForArtifactVersionByContent, called with params = nil
SearchForArtifactVersionByContent(content) ==
    Start("VersionsAPI.SearchForArtifactVersionByContent",
          Args(<<>>, <<>>, <<>>, <<>>, StringBody(content)),
          NoErr,
          executeRequest(client, "POST", <<client.BaseURL, "/search/versions?">>,
                         StringBody(content)))

SearchForArtifactVersionByContentResult(r) == ListArtifactVersionsResult(r)

\* MetadataAPI.GetArtifactVersionMetadata of apis/metadata.go: no validation
GetArtifactVersionMetadata(g, a, v) ==
    Start("MetadataAPI.GetArtifactVersionMetadata", Args(g, a, v, <<>>, NilBody),
          NoErr,
          executeRequestJSON(client, "GET", VersionURL(client, g, a, v, <<>>), NilBody))

GetArtifactVersionMetadataResult(r) == TargetResult(r, StatusOK, "ArtifactVersionMetadata")

\* MetadataAPI.UpdateArtifactMetadata of apis/metadata.go: no validation
UpdateArtifactMetadata(g, a) ==
    Start("MetadataAPI.UpdateArtifactMetadata",
          Args(g, a, <<>>, <<>>, StructBody("UpdateArtifactMetadataRequest")),
          NoErr,
          executeRequestJSON(client, "PUT", ArtifactURL(client, g, a, <<>>),
                             StructBody("UpdateArtifactMetadataRequest")))

UpdateArtifactMetadataResult(r) == EmptyResult(r, StatusNoContent)

\* ArtifactsAPI.DeleteArtifact (part_004)
DeleteArtifact(g, a) ==
    Start("ArtifactsAPI.DeleteArtifact", Args(g, a, <<>>, <<>>, NilBody),
          FirstErr(<<validateInputArtifacts(g, "Group ID"),
                     validateInputArtifacts(a, "Artifact ID")>>),
          executeRequestJSON(client, "DELETE", ArtifactURL(client, g, a, <<>>), NilBody))

\* the same handing every status to handleResponse
DeleteArtifactResultDecoded(r) == EmptyResult(r, StatusNoContent)

DeleteArtifactResult(r) ==
    IF r.status = StatusMethodNotAllowed
    THEN Return(Nil, ErrMethodNotAllowed, BodyIO(FALSE, NotRead, "none"))
    ELSE EmptyResult(r, StatusNoContent)

\* ArtifactsAPI.CreateArtifact (part_004), called with empty params
CreateArtifact(g) ==
    Start("ArtifactsAPI.CreateArtifact",
          Args(g, <<>>, <<>>, <<>>, StructBody("CreateArtifactRequest")),
          validateInputArtifacts(g, "Group ID"),
          executeRequestJSON(client, "POST",
                             <<client.BaseURL, "/groups/">> \o g \o <<"/artifacts">>,
                             StructBody("CreateArtifactRequest")))

CreateArtifactResult(r) == TargetResult(r, StatusOK, "CreateArtifactResponse")

\* ArtifactsAPI.SearchArtifactsByContent (part_004), called with params = nil
SearchArtifactsByContent(content) ==
    Start("ArtifactsAPI.SearchArtifactsByContent",
          Args(<<>>, <<>>, <<>>, <<>>, BytesBody(content)),
          NoErr,
          executeRequestJSON(client, "POST", <<client.BaseURL, "/search/artifacts?">>,
                             BytesBody(content)))

SearchArtifactsByContentResult(r) == TargetResult(r, StatusOK, "SearchArtifactsResponse")

\* the same without the early return for 404: every status but 200 is
\* decoded from the body
InlineContentNoSentinel(r, p, t, c) ==
    IF r.status # StatusOK
    THEN Return(Nil,
                IF p.err # NoErr THEN Wrap(p.err, "unexpected error") ELSE p.apiError,
                BodyIO(FALSE, ReadToEnd, "none"))
    ELSE IF t.err # NoErr
    THEN Return(Nil, t.err, BodyIO(FALSE, NotRead, "none"))
    ELSE IF c.err # NoErr
    THEN Return(Nil, Wrap(c.err, "failed to read response body"),
                BodyIO(FALSE, ReadToEnd, "none"))
    ELSE Return(ArtifactContent(c.data, t.artifactType), NoErr,
                BodyIO(FALSE, ReadToEnd, "none"))

\* the body of ArtifactsAPI.GetArtifactContentByHash and GetArtifactContentByID
\* (part_004) after executeRequest: the response is interpreted in line and
\* its body is never closed
InlineContent(r, p, t, c) ==
    IF r.status = StatusNotFound
    THEN Return(Nil, Wrap(ErrArtifactNotFound, "content"),
                BodyIO(FALSE, NotRead, "none"))
    ELSE IF r.status # StatusOK
    THEN Return(Nil,
                IF p.err # NoErr THEN Wrap(p.err, "unexpected error") ELSE p.apiError,
                BodyIO(FALSE, ReadToEnd, "none"))
    ELSE IF t.err # NoErr
    THEN Return(Nil, t.err, BodyIO(FALSE, NotRead, "none"))
    ELSE IF c.err # NoErr
    THEN Return(Nil, Wrap(c.err, "failed to read response body"),
                BodyIO(FALSE, ReadToEnd, "none"))
    ELSE Return(ArtifactContent(c.data, t.artifactType), NoErr,
                BodyIO(FALSE, ReadToEnd, "none"))

InlineContentResult(r) ==
    InlineContent(r, parseAPIError(r), parseArtifactTypeHeader(r), ReadAll(r.body))

\* ArtifactsAPI.GetArtifactContentByHash (part_004)
GetArtifactContentByHash(contentHash) ==
    Start("ArtifactsAPI.GetArtifactContentByHash",
          Args(<<>>, <<>>, <<>>, contentHash, NilBody),
          NoErr,
          executeRequestJSON(client, "GET",
                             <<client.BaseURL, "/ids/contentHashes/">> \o contentHash,
                             NilBody))

GetArtifactContentByHashResult(r) == InlineContentResult(r)

\* ArtifactsAPI.GetArtifactContentByID (part_004)
GetArtifactContentByID(contentID) ==
    Start("ArtifactsAPI.GetArtifactContentByID",
          Args(<<>>, <<>>, <<>>, Itoa(contentID), NilBody),
          NoErr,
          executeRequestJSON(client, "GET",
                             <<client.BaseURL, "/ids/contentIds/">> \o Itoa(contentID),
                             NilBody))

GetArtifactContentByIDResult(r) == InlineContentResult(r)

\* AdminAPI.GetGlobalRule
GetGlobalRule(rule) ==
    Start("AdminAPI.GetGlobalRule", Args(<<>>, <<>>, <<>>, rule, NilBody),
          NoErr,
          executeRequest(client, "GET", <<client.BaseURL, "/admin/rules/">> \o rule, NilBody))

GetGlobalRuleResult(r) ==
    Returned(handleResponse(r, StatusOK, "GlobalRuleResponse"), RuleLevel(Str("")),
             RuleLevel(handleResponse(r, StatusOK, "GlobalRuleResponse").result.obj["config"]))

-----------------------------------------------------------------------------
(* Query encoding: the ToQuery methods of models/params.go, url.Values.Encode *)
(* and url.ParseQuery.  A field value is a record tagged with the kind of   *)
(* the Go field: a string (s), an integer (n), a bool (b), a *bool (p:      *)
(* "nil", "true" or "false") or a []string (l).                             *)

\* number of fields of a parameter struct the caller sets
MaxFieldsSet == 2

Zero(kind) == [k |-> kind, s |-> <<>>, n |-> 0, b |-> FALSE, p |-> "nil", l |-> <<>>]

StringValue(s) == [Zero("string") EXCEPT !.s = s]
IntValue(n) == [Zero("int") EXCEPT !.n = n]
BoolValue(b) == [Zero("bool") EXCEPT !.b = b]
BoolPtrValue(p) == [Zero("boolptr") EXCEPT !.p = p]
ListValue(l) == [Zero("list") EXCEPT !.l = l]

\* one `if <test> { query.Set(key, ...) }` of a ToQuery method: the field it
\* reads, the key it sets, the kind of the field and, for a number, the test
Field(field, key, kind, test) == [field |-> field, key |-> key, kind |-> kind, test |-> test]

ParamStructs == {"SearchArtifactsParams", "SearchArtifactsByContentParams",
                 "CreateArtifactParams", "ListArtifactReferencesByGlobalIDParams",
                 "ListArtifactsInGroupParams", "ArtifactVersionReferencesParams",
                 "ArtifactReferenceParams", "SearchVersionParams",
                 "SearchVersionByContentParams"}

\* the ToQuery methods, statement by statement
ParamFields(struct) ==
    CASE struct = "SearchArtifactsParams" ->
            <<Field("Name", "name", "string", ""),
              Field("Offset", "offset", "int", "!= 0"),
              Field("Limit", "limit", "int", "!= 0"),
              Field("Order", "order", "string", ""),
              Field("OrderBy", "orderby", "string", ""),
              Field("Labels", "labels", "list", ""),
              Field("Description", "description", "string", ""),
              Field("GroupID", "groupId", "string", ""),
              Field("GlobalID", "globalId", "int", "!= 0"),
              Field("ContentID", "contentId", "int", "!= 0"),
              Field("ArtifactID", "artifactId", "string", ""),
              Field("ArtifactType", "artifactType", "string", "")>>
      [] struct = "SearchArtifactsByContentParams" ->
            <<Field("Canonical", "canonical", "bool", ""),
              Field("ArtifactType", "artifactType", "string", ""),
              Field("GroupID", "groupId", "string", ""),
              Field("Offset", "offset", "int", "!= 0"),
              Field("Limit", "limit", "int", "!= 0"),
              Field("Order", "order", "string", ""),
              Field("OrderBy", "orderby", "string", "")>>
      [] struct = "CreateArtifactParams" ->
            <<Field("IfExists", "ifExists", "string", ""),
              Field("Canonical", "canonical", "bool", ""),
              Field("DryRun", "dryRun", "bool", "")>>
      [] struct = "ListArtifactReferencesByGlobalIDParams" ->
            <<Field("RefType", "refType", "string", "")>>
      [] struct = "ListArtifactsInGroupParams" ->
            <<Field("Limit", "limit", "int", "!= 0"),
              Field("Offset", "offset", "int", "!= 0"),
              Field("Order", "order", "string", ""),
              Field("OrderBy", "orderby", "string", "")>>
      [] struct = "ArtifactVersionReferencesParams" ->
            <<Field("RefType", "refType", "string", "")>>
      [] struct = "ArtifactReferenceParams" ->
            <<Field("HandleReferencesType", "references", "string", "")>>
      [] struct = "SearchVersionParams" ->
            <<Field("Version", "version", "string", ""),
              Field("Offset", "offset", "int", "> 0"),
              Field("Limit", "limit", "int", "> 0"),
              Field("Order", "order", "string", ""),
              Field("OrderBy", "orderby", "string", ""),
              Field("Labels", "labels", "list", ""),
              Field("Description", "description", "string", ""),
              Field("GroupID", "groupId", "string", ""),
              Field("GlobalID", "globalId", "int", "> 0"),
              Field("ContentID", "contentId", "int", "> 0"),
              Field("ArtifactID", "artifactId", "string", ""),
              Field("Name", "name", "string", ""),
              Field("State", "state", "string", ""),
              Field("ArtifactType", "artifactType", "string", "")>>
      [] struct = "SearchVersionByContentParams" ->
            <<Field("Canonical", "canonical", "boolptr", ""),
              Field("ArtifactType", "artifactType", "string", ""),
              Field("Offset", "offset", "int", "> 0"),
              Field("Limit", "limit", "int", "> 0"),
              Field("Order", "order", "string", ""),
              Field("OrderBy", "orderby", "string", ""),
              Field("GroupID", "groupId", "string", ""),
              Field("ArtifactID", "artifactId", "string", "")>>
      [] OTHER -> <<>>

\* strconv.Itoa / strconv.FormatInt(n, 10)
FormatInt(n) == IF n < 0 THEN <<"-">> \o Itoa(0 - n) ELSE Itoa(n)

\* strings.Join(l, sep)
RECURSIVE Join(_, _)
Join(l, sep) ==
    IF l = <<>> THEN <<>>
    ELSE IF Len(l) = 1 THEN l[1]
    ELSE l[1] \o <<sep>> \o Join(Tail(l), sep)

\* the condition of the `if` that guards query.Set
Emits(f, v) ==
    CASE f.kind = "string" -> v.s # <<>>
      [] f.kind = "int" /\ f.test = "!= 0" -> v.n # 0
      [] f.kind = "int" /\ f.test = "> 0" -> v.n > 0
      [] f.kind = "bool" -> v.b
      [] f.kind = "boolptr" -> v.p # "nil"
      [] f.kind = "list" -> Len(v.l) > 0

\* strconv.FormatBool(*p.Canonical)
FormatBool(p) == IF p = "true" THEN <<"t", "r", "u", "e">> ELSE <<"f", "a", "l", "s", "e">>

\* the value query.Set stores
Render(f, v) ==
    CASE f.kind = "string" -> v.s
      [] f.kind = "int" -> FormatInt(v.n)
      [] f.kind = "bool" -> <<"t", "r", "u", "e">>
      [] f.kind = "boolptr" -> FormatBool(v.p)
      [] f.kind = "list" -> Join(v.l, ",")

\* p.ToQuery(): a url.Values, a map from key to the list of its values
ToQueryOf(fs, p) ==
    [key \in {fs[i].key : i \in {j \in 1..Len(fs) : Emits(fs[j], p[fs[j].field])}} |->
        <<Render(fs[CHOOSE i \in 1..Len(fs) : fs[i].key = key],
                 p[fs[CHOOSE i \in 1..Len(fs) : fs[i].key = key].field])>>]

ToQuery(struct, p) == ToQueryOf(ParamFields(struct), p)

\* url.QueryEscape: letters, digits and - _ . ~ stay, a space becomes +,
\* every other byte becomes % and two hexadecimal digits
EscapeTable ==
    [c \in {"&", "=", ",", ":", "+", "%", "/"} |->
        CASE c = "&" -> <<"%", "2", "6">>
          [] c = "=" -> <<"%", "3", "D">>
          [] c = "," -> <<"%", "2", "C">>
          [] c = ":" -> <<"%", "3", "A">>
          [] c = "+" -> <<"%", "2", "B">>
          [] c = "%" -> <<"%", "2", "5">>
          [] c = "/" -> <<"%", "2", "F">>]

RECURSIVE QueryEscape(_)
QueryEscape(s) ==
    IF s = <<>> THEN <<>>
    ELSE (IF Head(s) = " " THEN <<"+">>
          ELSE IF Head(s) \in DOMAIN EscapeTable THEN EscapeTable[Head(s)]
          ELSE <<Head(s)>>) \o QueryEscape(Tail(s))

\* url.QueryUnescape
RECURSIVE QueryUnescape(_)
QueryUnescape(s) ==
    IF s = <<>> THEN <<>>
    ELSE IF Head(s) = "+" THEN <<" ">> \o QueryUnescape(Tail(s))
    ELSE IF Head(s) = "%" /\ Len(s) >= 3
    THEN <<CHOOSE c \in DOMAIN EscapeTable : EscapeTable[c] = SubSeq(s, 1, 3)>>
         \o QueryUnescape(SubSeq(s, 4, Len(s)))
    ELSE <<Head(s)>> \o QueryUnescape(Tail(s))

\* the keys of all ToQuery methods in the order sort.Strings gives them.  A
\* key is one element of an encoded query; it holds no character to escape.
QueryKeys == <<"artifactId", "artifactType", "canonical", "contentId", "description",
               "dryRun", "globalId", "groupId", "ifExists", "labels", "limit", "name",
               "offset", "order", "orderby", "refType", "references", "state",
               "version">>

\* key=value for each value of one key, joined with &
RECURSIVE EncodeKey(_, _)
EncodeKey(key, vs) ==
    IF vs = <<>> THEN <<>>
    ELSE <<key, "=">> \o QueryEscape(Head(vs))
         \o (IF Tail(vs) = <<>> THEN <<>> ELSE <<"&">> \o EncodeKey(key, Tail(vs)))

\* url.Values.Encode(): the keys in sorted order, from the i-th of QueryKeys on
RECURSIVE EncodeFrom(_, _, _)
EncodeFrom(v, i, first) ==
    IF i > Len(QueryKeys) THEN <<>>
    ELSE IF QueryKeys[i] \notin DOMAIN v THEN EncodeFrom(v, i + 1, first)
    ELSE (IF first THEN <<>> ELSE <<"&">>) \o EncodeKey(QueryKeys[i], v[QueryKeys[i]])
         \o EncodeFrom(v, i + 1, FALSE)

Encode(v) == EncodeFrom(v, 1, TRUE)

\* index of the first sep in s, or 0
IndexOf(s, sep) ==
    IF \E i \in 1..Len(s) : s[i] = sep
    THEN CHOOSE i \in 1..Len(s) : s[i] = sep /\ \A j \in 1..(i - 1) : s[j] # sep
    ELSE 0

\* m[key] = append(m[key], value)
AddValue(m, key, value) ==
    [k \in DOMAIN m \cup {key} |->
        IF k = key THEN (IF k \in DOMAIN m THEN m[k] ELSE <<>>) \o <<value>> ELSE m[k]]

\* one key=value pair added to the map m, as url.ParseQuery does: the pair is
\* cut at the first = (at place i, 0 when there is none), the value is
\* unescaped and appended
AddPair(m, pair, i) ==
    IF pair = <<>> THEN m
    ELSE AddValue(m,
                  IF i = 1 THEN "" ELSE pair[1],
                  IF i = 0 THEN <<>> ELSE QueryUnescape(SubSeq(pair, i + 1, Len(pair))))

\* url.ParseQuery(query), starting from the map m
RECURSIVE ParseInto(_, _, _)
ParseInto(m, query, i) ==
    IF query = <<>> THEN m
    ELSE IF i = 0 THEN AddPair(m, query, IndexOf(query, "="))
    ELSE ParseInto(AddPair(m, SubSeq(query, 1, i - 1),
                           IndexOf(SubSeq(query, 1, i - 1), "=")),
                   SubSeq(query, i + 1, Len(query)),
                   IndexOf(SubSeq(query, i + 1, Len(query)), "&"))

ParseQuery(query) == ParseInto(<<>>, query, IndexOf(query, "&"))

\* the ToQuery harness: a parameter struct, and once ToQuery has run its
\* url.Values, the encoded query and the query parsed back
NoQuery == [struct |-> "", params |-> <<>>, done |-> FALSE,
            query |-> <<>>, encoded |-> <<>>, parsed |-> <<>>]

-----------------------------------------------------------------------------
(* The transport and the caller *)

Statuses == {StatusOK, StatusNoContent, StatusNotFound, StatusMethodNotAllowed,
             StatusInternalServerError}

HeaderValues == {NoHeader, "", "JSON", "AVRO", "json", "BOGUS"}

BodyTexts == {BodyNotFound, BodyConflict, BodyEmpty, BodyGarbage, BodyEmptyObject,
              BodyNull, BodyBadStatusType, BodyVersionList, BodyBadCount,
              BodyReferences, BodyMetadata, BodyArtifact, BodyRule, BodyArtifactList,
              BodyContent, BodyTwoValues}

\* a body whose text arrives, or one whose read fails
Bodies == {[text |-> t, readable |-> TRUE] : t \in BodyTexts}
          \cup {[text |-> "", readable |-> FALSE]}

Responses == [status : Statuses, artifactType : HeaderValues, body : Bodies]

\* the rest of the method in progress, applied to the response
Result(name, r) ==
    CASE name = "VersionsAPI.DeleteArtifactVersion" -> DeleteArtifactVersionResult(r)
      [] name = "VersionsAPI.GetArtifactVersionReferences" -> GetArtifactVersionReferencesResult(r)
      [] name = "VersionsAPI.ListArtifactVersions" -> ListArtifactVersionsResult(r)
      [] name = "VersionsAPI.GetArtifactVersionContent" -> GetArtifactVersionContentResult(r)
      [] name = "VersionsAPI.UpdateArtifactVersionContent" -> UpdateArtifactVersionContentResult(r)
      [] name = "VersionsAPI.SearchForArtifactVersionByContent" -> SearchForArtifactVersionByContentResult(r)
      [] name = "MetadataAPI.GetArtifactVersionMetadata" -> GetArtifactVersionMetadataResult(r)
      [] name = "MetadataAPI.UpdateArtifactMetadata" -> UpdateArtifactMetadataResult(r)
      [] name = "ArtifactsAPI.DeleteArtifact" -> DeleteArtifactResult(r)
      [] name = "ArtifactsAPI.CreateArtifact" -> CreateArtifactResult(r)
      [] name = "ArtifactsAPI.SearchArtifactsByContent" -> SearchArtifactsByContentResult(r)
      [] name = "ArtifactsAPI.GetArtifactContentByHash" -> GetArtifactContentByHashResult(r)
      [] name = "ArtifactsAPI.GetArtifactContentByID" -> GetArtifactContentByIDResult(r)
      [] name = "AdminAPI.GetGlobalRule" -> GetGlobalRuleResult(r)

\* c.HTTPClient.Do returns a response: the method interprets it and returns
TransportRespond(r) ==
    /\ pc = "sent"
    /\ resp' = r
    /\ ret' = Result(op, r)
    /\ pc' = "done"
    /\ UNCHANGED <<client, op, args, req, sends, vIn, vPat, vDone, vOut, q, nc>>

\* the transport fails and the request is sent again
TransportFailRetry ==
    /\ pc = "sent"
    /\ sends < 3
    /\ sends' = sends + 1
    /\ UNCHANGED <<client, pc, op, args, req, resp, ret, vIn, vPat, vDone, vOut, q, nc>>

\* the transport fails and the method returns the bare message, the
\* transport's error lost
TransportFailOpaque ==
    /\ pc = "sent"
    /\ ret' = Fails(op, Wrap(BaseErr("errors.New"), "failed to execute HTTP request"))
    /\ pc' = "done"
    /\ UNCHANGED <<client, op, args, req, sends, resp, vIn, vPat, vDone, vOut, q, nc>>

\* c.HTTPClient.Do returns an error: executeRequest wraps it and the method
\* returns it
TransportFail ==
    /\ pc = "sent"
    /\ ret' = Fails(op, Wrap(BaseErr("transport"), "failed to execute HTTP request"))
    /\ pc' = "done"
    /\ UNCHANGED <<client, op, args, req, sends, resp, vIn, vPat, vDone, vOut, q, nc>>

\* the caller has the result; the next call starts afresh
Finish ==
    /\ pc = "done"
    /\ pc' = "idle"
    /\ op' = ""
    /\ args' = NoArgs
    /\ req' = NoReq
    /\ sends' = 0
    /\ resp' = NoResp
    /\ ret' = NoRet
    /\ UNCHANGED <<client, vIn, vPat, vDone, vOut, q, nc>>

Init ==
    /\ client \in {NewClient(BaseURL, options) : options \in OptionLists}
    /\ pc = "idle"
    /\ op = ""
    /\ args = NoArgs
    /\ req = NoReq
    /\ sends = 0
    /\ resp = NoResp
    /\ ret = NoRet
    /\ vIn = <<>>
    /\ vPat = "regexGroupIDArtifactID"
    /\ vDone = FALSE
    /\ vOut = NoErr
    /\ q = NoQuery
    /\ nc = NoNewClient

Next ==
    \/ \E g \in IDs, a \in IDs, v \in VersionExprs : DeleteArtifactVersion(g, a, v)
    \/ \E g \in IDs, a \in IDs, v \in VersionExprs : GetArtifactVersionReferences(g, a, v)
    \/ \E g \in IDs, a \in IDs : ListArtifactVersions(g, a)
    \/ \E g \in IDs, a \in IDs, v \in VersionExprs : GetArtifactVersionContent(g, a, v)
    \/ \E g \in IDs, a \in IDs, v \in VersionExprs : UpdateArtifactVersionContent(g, a, v)
    \/ \E content \in Contents : SearchForArtifactVersionByContent(content)
    \/ \E g \in IDs, a \in IDs, v \in VersionExprs : GetArtifactVersionMetadata(g, a, v)
    \/ \E g \in IDs, a \in IDs : UpdateArtifactMetadata(g, a)
    \/ \E g \in IDs, a \in IDs : DeleteArtifact(g, a)
    \/ \E g \in IDs : CreateArtifact(g)
    \/ \E content \in Contents : SearchArtifactsByContent(content)
    \/ \E contentHash \in ContentHashes : GetArtifactContentByHash(contentHash)
    \/ \E contentID \in ContentIDs : GetArtifactContentByID(contentID)
    \/ \E rule \in Rules : GetGlobalRule(rule)
    \/ \E r \in Responses : TransportRespond(r)
    \/ TransportFail
    \/ Finish

Spec == Init /\ [][Next]_vars

-----------------------------------------------------------------------------
(* validateInput on its own: every input string of the model against both  *)
(* patterns                                                                 *)

InitValidate ==
    /\ client = NewClient(BaseURL, <<>>)
    /\ pc = "idle"
    /\ op = ""
    /\ args = NoArgs
    /\ req = NoReq
    /\ sends = 0
    /\ resp = NoResp
    /\ ret = NoRet
    /\ vIn \in Inputs
    /\ vPat \in Patterns
    /\ vDone = FALSE
    /\ vOut = NoErr
    /\ q = NoQuery
    /\ nc = NoNewClient

Validate ==
    /\ ~vDone
    /\ vOut' = validateInput(vIn, vPat, "input")
    /\ vDone' = TRUE
    /\ UNCHANGED <<client, pc, op, args, req, sends, resp, ret, vIn, vPat, q, nc>>

NextValidate == Validate

SpecValidate == InitValidate /\ [][NextValidate]_vars

-----------------------------------------------------------------------------
(* ToQuery on its own: every parameter struct with at most MaxFieldsSet     *)
(* fields set, encoded and parsed back                                      *)

StringValues == {<<"a">>, <<"a", " ", "b">>, <<"x", "&", "y", "=", "1">>}
IntValues == {0 - 1, 10}
ListValues == {<< <<"k", ":", "v">> >>, << <<"a">>, <<"b">> >>}

\* the values a caller sets a field of the kind to
SetValues(kind) ==
    CASE kind = "string" -> {StringValue(s) : s \in StringValues}
      [] kind = "int" -> {IntValue(n) : n \in IntValues}
      [] kind = "bool" -> {BoolValue(TRUE)}
      [] kind = "boolptr" -> {BoolPtrValue("true"), BoolPtrValue("false")}
      [] kind = "list" -> {ListValue(l) : l \in ListValues}

\* the struct values with the fields of `set` set and the others zero
ParamsWith(fs, set) ==
    {[f \in {fs[i].field : i \in 1..Len(fs)} |->
        IF \E i \in set : fs[i].field = f
        THEN choice[CHOOSE i \in set : fs[i].field = f]
        ELSE Zero(fs[CHOOSE i \in 1..Len(fs) : fs[i].field = f].kind)]
     : choice \in {c \in [set -> UNION {SetValues(k) : k \in {"string", "int", "bool", "boolptr", "list"}}] :
                      \A i \in set : c[i].k = fs[i].kind}}

ParamSets(fs) ==
    UNION {ParamsWith(fs, set) :
           set \in {x \in SUBSET (1..Len(fs)) : Cardinality(x) <= MaxFieldsSet}}

\* number of goroutines that call operations on the one shared *Client
MaxCallers == 2

Callers == 1..MaxCallers

\* what the callers of SpecShared pass and what the transport answers them
SharedIDs == {<<>>, <<"g">>, <<"h">>}
SharedResponses ==
    [status : {StatusOK, StatusNoContent, StatusMethodNotAllowed},
     artifactType : {NoHeader},
     body : {[text |-> t, readable |-> TRUE] : t \in {BodyVersionList, BodyNotFound}}]

\* a Do that keeps the Authorization header it found on the request in the
\* client, for the requests to come
ClientAfterDoStoringHeader(c, r) == [c EXCEPT !.AuthHeader = r.Authorization]

\* a Do that spends the authorization header: the requests after the first
\* go without it
ClientAfterDoSpendingHeader(c, r) == [c EXCEPT !.AuthHeader = ""]

\* the *Client after Client.Do(req): Do reads AuthHeader and HTTPClient and
\* assigns to no field of c
ClientAfterDo(c, r) == c

\* the caller k starts an operation: as Start, with the state of the call
\* kept per caller
SharedStart(k, name, a, verr, built) ==
    /\ pc[k] = "idle"
    /\ op' = [op EXCEPT ![k] = name]
    /\ args' = [args EXCEPT ![k] = a]
    /\ IF verr # NoErr
       THEN /\ pc' = [pc EXCEPT ![k] = "done"]
            /\ ret' = [ret EXCEPT ![k] = Fails(name, verr)]
            /\ UNCHANGED <<client, req, sends>>
       ELSE IF built.err # NoErr
       THEN /\ pc' = [pc EXCEPT ![k] = "done"]
            /\ ret' = [ret EXCEPT ![k] = Fails(name, built.err)]
            /\ UNCHANGED <<client, req, sends>>
       ELSE /\ pc' = [pc EXCEPT ![k] = "sent"]
            /\ req' = [req EXCEPT ![k] = built.req]
            /\ sends' = [sends EXCEPT ![k] = @ + 1]
            /\ client' = ClientAfterDo(client, built.req)
            /\ ret' = ret
    /\ UNCHANGED <<resp, vIn, vPat, vDone, vOut, q, nc>>

SharedListArtifactVersions(k, g, a) ==
    SharedStart(k, "VersionsAPI.ListArtifactVersions", Args(g, a, <<>>, <<>>, NilBody),
                ValidateGroupArtifact(g, a),
                executeRequest(client, "GET", ArtifactURL(client, g, a, <<"/versions">>),
                               NilBody))

SharedDeleteArtifact(k, g, a) ==
    SharedStart(k, "ArtifactsAPI.DeleteArtifact", Args(g, a, <<>>, <<>>, NilBody),
                FirstErr(<<validateInputArtifacts(g, "Group ID"),
                           validateInputArtifacts(a, "Artifact ID")>>),
                executeRequestJSON(client, "DELETE", ArtifactURL(client, g, a, <<>>),
                                   NilBody))

\* the transport answers the request of caller k
SharedRespond(k, r) ==
    /\ pc[k] = "sent"
    /\ resp' = [resp EXCEPT ![k] = r]
    /\ ret' = [ret EXCEPT ![k] = Result(op[k], r)]
    /\ pc' = [pc EXCEPT ![k] = "done"]
    /\ UNCHANGED <<client, op, args, req, sends, vIn, vPat, vDone, vOut, q, nc>>

\* the transport fails the request of caller k
SharedFail(k) ==
    /\ pc[k] = "sent"
    /\ ret' = [ret EXCEPT ![k] = Fails(op[k], Wrap(BaseErr("transport"),
                                                   "failed to execute HTTP request"))]
    /\ pc' = [pc EXCEPT ![k] = "done"]
    /\ UNCHANGED <<client, op, args, req, sends, resp, vIn, vPat, vDone, vOut, q, nc>>

\* caller k has its result and is ready for its next call
SharedFinish(k) ==
    /\ pc[k] = "done"
    /\ pc' = [pc EXCEPT ![k] = "idle"]
    /\ op' = [op EXCEPT ![k] = ""]
    /\ args' = [args EXCEPT ![k] = NoArgs]
    /\ req' = [req EXCEPT ![k] = NoReq]
    /\ sends' = [sends EXCEPT ![k] = 0]
    /\ resp' = [resp EXCEPT ![k] = NoResp]
    /\ ret' = [ret EXCEPT ![k] = NoRet]
    /\ UNCHANGED <<client, vIn, vPat, vDone, vOut, q, nc>>

InitShared ==
    /\ client \in {NewClient(BaseURL, options) : options \in OptionLists}
    /\ pc = [k \in Callers |-> "idle"]
    /\ op = [k \in Callers |-> ""]
    /\ args = [k \in Callers |-> NoArgs]
    /\ req = [k \in Callers |-> NoReq]
    /\ sends = [k \in Callers |-> 0]
    /\ resp = [k \in Callers |-> NoResp]
    /\ ret = [k \in Callers |-> NoRet]
    /\ vIn = <<>>
    /\ vPat = "regexGroupIDArtifactID"
    /\ vDone = FALSE
    /\ vOut = NoErr
    /\ q = NoQuery
    /\ nc = NoNewClient

NextShared ==
    \/ \E k \in Callers, g \in SharedIDs, a \in SharedIDs : SharedListArtifactVersions(k, g, a)
    \/ \E k \in Callers, g \in SharedIDs, a \in SharedIDs : SharedDeleteArtifact(k, g, a)
    \/ \E k \in Callers, r \in SharedResponses : SharedRespond(k, r)
    \/ \E k \in Callers : SharedFail(k)
    \/ \E k \in Callers : SharedFinish(k)

\* several callers on one client, their calls interleaved at the transport
SpecShared == InitShared /\ [][NextShared]_vars

InitNewClient ==
    /\ client = NoClient
    /\ pc = "idle"
    /\ op = ""
    /\ args = NoArgs
    /\ req = NoReq
    /\ sends = 0
    /\ resp = NoResp
    /\ ret = NoRet
    /\ vIn = <<>>
    /\ vPat = "regexGroupIDArtifactID"
    /\ vDone = FALSE
    /\ vOut = NoErr
    /\ q = NoQuery
    /\ \E baseURL \in NewClientURLs, options \in NewClientOptionLists :
          nc = [baseURL |-> baseURL, options |-> options, done |-> FALSE]

\* client := client.NewClient(baseURL, options...)
CallNewClient ==
    /\ ~nc.done
    /\ client' = NewClient(nc.baseURL, nc.options)
    /\ nc' = [nc EXCEPT !.done = TRUE]
    /\ UNCHANGED <<pc, op, args, req, sends, resp, ret, vIn, vPat, vDone, vOut, q>>

NextNewClient == CallNewClient

SpecNewClient == InitNewClient /\ [][NextNewClient]_vars

InitQuery ==
    /\ client = NewClient(BaseURL, <<>>)
    /\ pc = "idle"
    /\ op = ""
    /\ args = NoArgs
    /\ req = NoReq
    /\ sends = 0
    /\ resp = NoResp
    /\ ret = NoRet
    /\ vIn = <<>>
    /\ vPat = "regexGroupIDArtifactID"
    /\ vDone = FALSE
    /\ vOut = NoErr
    /\ \E struct \in ParamStructs :
          \E p \in ParamSets(ParamFields(struct)) :
              q = [NoQuery EXCEPT !.struct = struct, !.params = p]
    /\ nc = NoNewClient

\* query := p.ToQuery(); the caller encodes it into the URL and the server
\* parses it
CallToQuery ==
    /\ ~q.done
    /\ q.struct \in ParamStructs
    /\ q' = [q EXCEPT !.done = TRUE,
                      !.query = ToQuery(q.struct, q.params),
                      !.encoded = Encode(ToQuery(q.struct, q.params)),
                      !.parsed = ParseQuery(Encode(ToQuery(q.struct, q.params)))]
    /\ UNCHANGED <<client, pc, op, args, req, sends, resp, ret, vIn, vPat, vDone, vOut, nc>>

NextQuery == CallToQuery

SpecQuery == InitQuery /\ [][NextQuery]_vars

-----------------------------------------------------------------------------
(* Properties of validateInput, checked under SpecValidate *)

\* the input is made of version-expression characters only
AllInVersionClass(input) == \A i \in 1..Len(input) : input[i] \in VersionClass

HasLineFeed(input) == \E i \in 1..Len(input) : input[i] = LF

C5_VersionPattern ==
    (vDone /\ vPat = "regexVersion") =>
        IF Len(vIn) >= 1 /\ Len(vIn) <= MaxVersionLen /\ AllInVersionClass(vIn)
        THEN vOut = NoErr
        ELSE Is(vOut, ErrInvalidInput)

-----------------------------------------------------------------------------
(* Properties of the operations, checked under Spec *)

\* the success status an operation passes to its interpreter
ExpectedStatus(name) ==
    IF name \in {"VersionsAPI.DeleteArtifactVersion",
                 "VersionsAPI.UpdateArtifactVersionContent",
                 "MetadataAPI.UpdateArtifactMetadata",
                 "ArtifactsAPI.DeleteArtifact"}
    THEN StatusNoContent
    ELSE StatusOK

\* the operation has returned after the transport answered with a response
Answered == pc = "done" /\ resp.status \in Statuses

\* the response of the call was handed to handleResponse or handleRawResponse
Interpreted == Answered /\ ret.io.via \in {"handleResponse", "handleRawResponse"}

\* the problem-details bodies of the model with their "status" and "title"
ProblemDetails ==
    {[text |-> BodyNotFound, status |-> 404, title |-> "Not found"],
     [text |-> BodyConflict, status |-> 409, title |-> "Conflict"]}

\* bodies that do not decode as a problem-details object: unreadable, empty,
\* not JSON, a JSON array, a "status" that is no number, text after the object
Undecodable(body) ==
    \/ ~body.readable
    \/ body.text \in {BodyEmpty, BodyGarbage, BodyReferences, BodyBadStatusType,
                      BodyTwoValues}

DecodeFailures == {"json.SyntaxError", "json.UnmarshalTypeError", "io.ErrUnexpectedEOF"}

\* C1: when a response handed to handleResponse or handleRawResponse has
\* another status than the operation expects and its body is a JSON
\* problem-details object, the operation returns an error that errors.As
\* resolves to a *models.APIError whose Status and Title are the body's
\* "status" and "title" (not the HTTP status), and it returns no value.
C1_APIErrorFromBody ==
    \A pd \in ProblemDetails :
        (/\ Interpreted
         /\ resp.status # ExpectedStatus(op)
         /\ resp.body.readable
         /\ resp.body.text = pd.text)
        => /\ AsAPIError(ret.err)
           /\ ret.err.status = pd.status
           /\ ret.err.title = pd.title
           /\ ret.value = ZeroResult(op)

\* an HTTP 500 whose body says 409 / Conflict came back as APIError 409
C1_Witness ==
    /\ Interpreted
    /\ resp.status = StatusInternalServerError
    /\ resp.body = [text |-> BodyConflict, readable |-> TRUE]
    /\ AsAPIError(ret.err)
    /\ ret.err.status = 409
    /\ ret.err.title = "Conflict"

\* C2: when a response handed to handleResponse or handleRawResponse has
\* another status than the operation expects and its body does not decode as
\* a problem-details object (it is empty, not JSON, or cannot be read), the
\* operation returns an error labelled "unexpected server error" that wraps
\* the decode failure and is no *models.APIError, and it returns no value.
C2_UnexpectedServerError ==
    (/\ Interpreted
     /\ resp.status # ExpectedStatus(op)
     /\ Undecodable(resp.body))
    => /\ ret.err # NoErr
       /\ Label(ret.err) = "unexpected server error"
       /\ Len(ret.err.chain) = 2
       /\ ret.err.type \in DecodeFailures
       /\ ~AsAPIError(ret.err)
       /\ ret.value = ZeroResult(op)

\* a 500 with an HTML body came back as "unexpected server error"
C2_Witness ==
    /\ Interpreted
    /\ resp.status = StatusInternalServerError
    /\ resp.body = [text |-> BodyGarbage, readable |-> TRUE]
    /\ Label(ret.err) = "unexpected server error"
    /\ ret.err.type = "json.SyntaxError"

\* for each operation that passes a target type, a body that is valid JSON
\* for that type and the value the operation must return for it
ValidBodies ==
    {[op |-> "VersionsAPI.ListArtifactVersions", text |-> BodyVersionList,
      value |-> Decoded("[]ArtifactVersion", NoObj, 1)],
     [op |-> "VersionsAPI.SearchForArtifactVersionByContent", text |-> BodyVersionList,
      value |-> Decoded("[]ArtifactVersion", NoObj, 1)],
     [op |-> "VersionsAPI.GetArtifactVersionReferences", text |-> BodyReferences,
      value |-> Decoded("[]ArtifactReference", NoObj, 1)],
     [op |-> "MetadataAPI.GetArtifactVersionMetadata", text |-> BodyMetadata,
      value |-> Decoded("ArtifactVersionMetadata",
                        Obj([version |-> Str("1.0"), globalId |-> Num(7)]), 0)],
     [op |-> "ArtifactsAPI.CreateArtifact", text |-> BodyArtifact,
      value |-> Decoded("CreateArtifactResponse", Obj([artifact |-> Sub("a")]), 0)],
     [op |-> "ArtifactsAPI.SearchArtifactsByContent", text |-> BodyArtifactList,
      value |-> Decoded("SearchArtifactsResponse",
                        Obj([artifacts |-> Arr(1), count |-> Num(1)]), 0)],
     [op |-> "AdminAPI.GetGlobalRule", text |-> BodyRule,
      value |-> RuleLevel(Str("FULL"))]}

\* C3: for an operation that passes a target type, a response with the
\* expected status whose body is valid JSON for the type yields the decoded
\* value and a nil error.
C3_DecodedValue ==
    \A vb \in ValidBodies :
        (/\ Answered
         /\ op = vb.op
         /\ resp.status = ExpectedStatus(op)
         /\ resp.body = [text |-> vb.text, readable |-> TRUE])
        => /\ ret.err = NoErr
           /\ ret.value = vb.value

\* ListArtifactVersions answered 200 with a list of one version
C3_Witness ==
    /\ Answered
    /\ op = "VersionsAPI.ListArtifactVersions"
    /\ resp.status = StatusOK
    /\ resp.body = [text |-> BodyVersionList, readable |-> TRUE]
    /\ ret.err = NoErr
    /\ ret.value.kind = "decoded"
    /\ ret.value.n = 1

\* the inputs an operation takes and validates by pattern
TakesGroupID ==
    {"VersionsAPI.DeleteArtifactVersion", "VersionsAPI.GetArtifactVersionReferences",
     "VersionsAPI.ListArtifactVersions", "VersionsAPI.GetArtifactVersionContent",
     "VersionsAPI.UpdateArtifactVersionContent",
     "MetadataAPI.GetArtifactVersionMetadata", "MetadataAPI.UpdateArtifactMetadata",
     "ArtifactsAPI.DeleteArtifact", "ArtifactsAPI.CreateArtifact"}

TakesArtifactID == TakesGroupID \ {"ArtifactsAPI.CreateArtifact"}

TakesVersion ==
    {"VersionsAPI.DeleteArtifactVersion", "VersionsAPI.GetArtifactVersionReferences",
     "VersionsAPI.GetArtifactVersionContent", "VersionsAPI.UpdateArtifactVersionContent",
     "MetadataAPI.GetArtifactVersionMetadata"}

\* invalid inputs as the documented patterns define them
InvalidID(input) == Len(input) \notin 1..MaxIDLen

InvalidVersion(input) ==
    ~(Len(input) \in 1..MaxVersionLen /\ AllInVersionClass(input))

SomeInputInvalid ==
    \/ op \in TakesGroupID /\ InvalidID(args.groupID)
    \/ op \in TakesArtifactID /\ InvalidID(args.artifactID)
    \/ op \in TakesVersion /\ InvalidVersion(args.versionExpression)

\* C6: an operation that takes a group ID, an artifact ID or a version
\* expression and is called with an invalid one never invokes the transport
\* and returns the invalid-input error.
C6_ValidationPrecedesDispatch ==
    (pc # "idle" /\ SomeInputInvalid)
    => /\ sends = 0
       /\ pc = "done"
       /\ Is(ret.err, ErrInvalidInput)

ContentOps == {"VersionsAPI.GetArtifactVersionContent",
               "ArtifactsAPI.GetArtifactContentByHash",
               "ArtifactsAPI.GetArtifactContentByID"}

\* C7: a content-fetching operation answered 200 with a readable body and an
\* X-Registry-ArtifactType header naming a supported type returns a nil error
\* and an ArtifactContent holding the body text unchanged and the named type.
C7_ContentVerbatim ==
    (/\ Answered
     /\ op \in ContentOps
     /\ resp.status = StatusOK
     /\ resp.body.readable
     /\ HeaderGet(resp.artifactType) \in ArtifactTypes)
    => /\ ret.err = NoErr
       /\ ret.value = ArtifactContent(resp.body.text, HeaderGet(resp.artifactType))

\* GetArtifactVersionContent answered 200, header JSON, body {"a":"1"}
C7_Witness ==
    /\ Answered
    /\ op = "VersionsAPI.GetArtifactVersionContent"
    /\ resp = [status |-> StatusOK, artifactType |-> "JSON",
               body |-> [text |-> BodyContent, readable |-> TRUE]]
    /\ ret.err = NoErr
    /\ ret.value.Content = BodyContent
    /\ ret.value.ArtifactType = "JSON"

\* C8: a content-fetching operation answered 200 with a readable body and an
\* X-Registry-ArtifactType header that is absent, empty or not exactly one of
\* the nine type names fails with an error wrapping ErrUnknownArtifactType
\* that is no *models.APIError, and returns no content.
C8_UnknownArtifactType ==
    (/\ Answered
     /\ op \in ContentOps
     /\ resp.status = StatusOK
     /\ resp.body.readable
     /\ HeaderGet(resp.artifactType) \notin ArtifactTypes)
    => /\ Is(ret.err, ErrUnknownArtifactType)
       /\ Len(ret.err.chain) = 1
       /\ ~AsAPIError(ret.err)
       /\ ret.value = Nil

\* GetArtifactVersionContent answered 200 with the header in lower case
C8_Witness ==
    /\ Answered
    /\ op = "VersionsAPI.GetArtifactVersionContent"
    /\ resp = [status |-> StatusOK, artifactType |-> "json",
               body |-> [text |-> BodyContent, readable |-> TRUE]]
    /\ Is(ret.err, ErrUnknownArtifactType)
    /\ ret.value = Nil

\* the operations whose executeRequest picks the Content-Type by the kind of
\* the body
SwitchOps == {"VersionsAPI.DeleteArtifactVersion",
              "VersionsAPI.GetArtifactVersionReferences",
              "VersionsAPI.ListArtifactVersions",
              "VersionsAPI.GetArtifactVersionContent",
              "VersionsAPI.UpdateArtifactVersionContent",
              "VersionsAPI.SearchForArtifactVersionByContent",
              "AdminAPI.GetGlobalRule"}

\* C9: the Content-Type of a request that executeRequest built and Client.Do
\* handed to the transport is the one executeRequest computed: "*/*" for a
\* string or []byte body, "application/json" for a JSON-encoded value.
C9_ComputedContentType ==
    (op \in SwitchOps /\ sends > 0)
    => /\ args.body.kind \in {"string", "bytes"} => req.ContentType = ContentTypeAll
       /\ args.body.kind = "struct" => req.ContentType = ContentTypeJSON

\* C10: every request that Client.Do hands to the transport carries the
\* Content-Type "application/json", whether or not an authorization header is
\* configured.
C10_AlwaysJSON == sends > 0 => req.ContentType = ContentTypeJSON

\* a request with a raw string body and a configured authorization header is
\* with the transport
C10_Witness ==
    /\ pc = "sent"
    /\ sends > 0
    /\ args.body.kind = "string"
    /\ client.AuthHeader # ""
    /\ req.Authorization = client.AuthHeader
    /\ req.ContentType = ContentTypeJSON

\* C11: the request Client.Do hands to the transport carries the configured
\* AuthHeader as its Authorization header when AuthHeader is not empty, and
\* no Authorization header when AuthHeader is empty.
C11_Authorization ==
    sends > 0
    => req.Authorization = IF client.AuthHeader # "" THEN client.AuthHeader ELSE NoHeader

\* a client built with WithAuthHeader("Bearer test-token") has a request with
\* the transport
C11_Witness ==
    /\ pc = "sent"
    /\ client.AuthHeader = "Bearer test-token"
    /\ req.Authorization = "Bearer test-token"

\* a client without AuthHeader has a request with the transport
C11_WitnessNoHeader ==
    /\ pc = "sent"
    /\ client.AuthHeader = ""
    /\ req.Authorization = NoHeader

\* C12: the body of the request VersionsAPI.SearchForArtifactVersionByContent
\* hands to the transport is the caller's content string itself, not a JSON
\* encoding of it, for every content string, the empty one included.
C12_RawContentBody ==
    (op = "VersionsAPI.SearchForArtifactVersionByContent" /\ sends > 0)
    => /\ args.body.kind = "string"
       /\ req.body = args.body.data

\* the content {"a":"1"}, which JSON quoting would change, is with the transport
C12_Witness ==
    /\ pc = "sent"
    /\ op = "VersionsAPI.SearchForArtifactVersionByContent"
    /\ args.body = StringBody(BodyContent)
    /\ req.body = BodyContent
    /\ req.body # Marshal(args.body)

-----------------------------------------------------------------------------
(* Properties of ToQuery, checked under SpecQuery *)

\* strconv.Atoi of a decimal text
RECURSIVE AtoiDigits(_)
AtoiDigits(s) ==
    IF s = <<>> THEN 0
    ELSE AtoiDigits(SubSeq(s, 1, Len(s) - 1)) * 10
         + (CHOOSE d \in 0..9 : DigitChars[d + 1] = s[Len(s)])

Atoi(s) == IF s # <<>> /\ Head(s) = "-" THEN 0 - AtoiDigits(Tail(s)) ELSE AtoiDigits(s)

\* the parsed text holds the field's value unchanged
HoldsValue(v, text) ==
    CASE v.k = "string" -> text = v.s
      [] v.k = "int" -> text # <<>> /\ Atoi(text) = v.n
      [] v.k = "bool" -> text = <<"t", "r", "u", "e">>
      [] v.k = "boolptr" -> text = FormatBool(v.p)
      [] v.k = "list" -> text = Join(v.l, ",")

\* the parsed query holds the key of field f once, with the value v, when v
\* is to be sent, and does not hold the key when it is not
RoundTrips(f, v, sent) ==
    IF sent
    THEN /\ f.key \in DOMAIN q.parsed
         /\ Len(q.parsed[f.key]) = 1
         /\ HoldsValue(v, q.parsed[f.key][1])
    ELSE f.key \notin DOMAIN q.parsed

\* C13: for every parameter struct, the encoded and re-parsed result of
\* ToQuery holds exactly one key for each field that differs from its zero
\* value (negative numbers included), with the field's value unchanged and a
\* list joined with commas, and no key for a field that holds its zero value.
C13_QueryRoundTrip ==
    q.done
    => /\ \A i \in 1..Len(ParamFields(q.struct)) :
             RoundTrips(ParamFields(q.struct)[i],
                        q.params[ParamFields(q.struct)[i].field],
                        q.params[ParamFields(q.struct)[i].field]
                            # Zero(ParamFields(q.struct)[i].kind))
       /\ DOMAIN q.parsed
              \subseteq {ParamFields(q.struct)[i].key : i \in 1..Len(ParamFields(q.struct))}

\* the same with a negative number treated as the code of the struct treats
\* it: sent where the method tests != 0, left out where it tests > 0
QueryRoundTripExceptNegative ==
    q.done
    => \A i \in 1..Len(ParamFields(q.struct)) :
           RoundTrips(ParamFields(q.struct)[i],
                      q.params[ParamFields(q.struct)[i].field],
                      /\ q.params[ParamFields(q.struct)[i].field]
                             # Zero(ParamFields(q.struct)[i].kind)
                      /\ ~(/\ ParamFields(q.struct)[i].test = "> 0"
                           /\ q.params[ParamFields(q.struct)[i].field].n < 0))

-----------------------------------------------------------------------------
(* Further properties of the operations, checked under Spec *)

\* C14: whenever an operation returns after the transport gave it a response,
\* on whichever exit path, the response body has been closed.
C14_BodyClosed == Answered => ret.io.closed

\* the operation's own validation let the inputs pass
InputsValidated == ~Is(ret.err, ErrInvalidInput)

\* http.NewRequestWithContext accepted the URL
RequestCreated == Label(ret.err) # "failed to create HTTP request"

\* C15 as stated: the transport is invoked at most once per call, and exactly
\* once by every call whose inputs validate and whose body encodes.
C15_ExactlyOnce ==
    /\ sends <= 1
    /\ (pc = "done" /\ InputsValidated) => sends = 1

\* C15: the transport is invoked at most once per call: not before the
\* call, once while the request is out, and by the time the call returns
\* exactly once when the inputs validated and the request could be created
\* from the URL, and not at all otherwise; no failure leads to a second
\* request.
C15_AtMostOnce ==
    /\ sends <= 1
    /\ pc = "idle" => sends = 0
    /\ pc = "sent" => sends = 1
    /\ pc = "done" => (sends = 1 <=> (InputsValidated /\ RequestCreated))

\* the call returned the transport's failure after one request
C15_Witness ==
    /\ pc = "done"
    /\ sends = 1
    /\ Label(ret.err) = "failed to execute HTTP request"

\* the call returned without a request although validation passed
C15_WitnessNotCreated ==
    /\ pc = "done"
    /\ sends = 0
    /\ InputsValidated
    /\ ~RequestCreated

\* the call returned after its request was sent and no response came back
TransportFailed == pc = "done" /\ sends = 1 /\ resp = NoResp

\* C16: when the transport returns an error the operation returns an error
\* that wraps it (the transport's error is at the bottom of the chain), no
\* value, and no *models.APIError, and no response interpreter has run.
C16_TransportErrorWrapped ==
    TransportFailed
    => /\ ret.err # NoErr
       /\ ret.err.type = "transport"
       /\ ret.err.chain = <<"failed to execute HTTP request">>
       /\ ~AsAPIError(ret.err)
       /\ ret.value = ZeroResult(op)
       /\ ret.io = BodyIO(FALSE, NotRead, "none")

\* ListArtifactVersions returned the wrapped transport error
C16_Witness ==
    /\ TransportFailed
    /\ op = "VersionsAPI.ListArtifactVersions"
    /\ ret.err.type = "transport"
    /\ ret.value = Nil

\* the operation was answered 404 or 405 with a readable problem-details body
RefusedWith(pd) ==
    /\ Answered
    /\ resp.status \in {StatusNotFound, StatusMethodNotAllowed}
    /\ resp.body = [text |-> pd.text, readable |-> TRUE]

\* the error is the APIError decoded from the body
DecodedFrom(pd) ==
    /\ AsAPIError(ret.err)
    /\ ret.err.status = pd.status
    /\ ret.err.title = pd.title

C17_WitnessDecoded ==
    /\ Answered
    /\ op = "VersionsAPI.DeleteArtifactVersion"
    /\ resp.status = StatusMethodNotAllowed
    /\ resp.body = [text |-> BodyNotFound, readable |-> TRUE]
    /\ AsAPIError(ret.err)

\* C18: ArtifactsAPI.DeleteArtifact returns exactly ErrMethodNotAllowed, the
\* sentinel itself and neither a wrapper nor an APIError, whenever the
\* response status is 405, whatever the body holds.
C18_MethodNotAllowedSentinel ==
    (Answered /\ op = "ArtifactsAPI.DeleteArtifact" /\ resp.status = StatusMethodNotAllowed)
    => /\ ret.err = ErrMethodNotAllowed
       /\ ~AsAPIError(ret.err)
       /\ ret.io.read = NotRead

\* DeleteArtifact was answered 405 with a body that decodes as an APIError
C18_Witness ==
    /\ Answered
    /\ op = "ArtifactsAPI.DeleteArtifact"
    /\ resp.status = StatusMethodNotAllowed
    /\ resp.body = [text |-> BodyConflict, readable |-> TRUE]
    /\ ret.err = ErrMethodNotAllowed

\* C19: every *models.APIError an operation returns has a non-zero Status
\* and a non-empty Title, whatever body came with the non-expected status.
C19_StatusAndTitle ==
    (Answered /\ AsAPIError(ret.err))
    => /\ ret.err.status # 0
       /\ ret.err.title # ""

\* C20: no operation returns a *models.APIError for a response whose status
\* is 2xx, also when that status is not the one the operation expects.
C20_OnlyForNon2xx ==
    (Answered /\ resp.status \in 200..299) => ~AsAPIError(ret.err)

\* the operations whose only result is an error
ErrorOnlyOps ==
    {"VersionsAPI.DeleteArtifactVersion", "VersionsAPI.UpdateArtifactVersionContent",
     "MetadataAPI.UpdateArtifactMetadata", "ArtifactsAPI.DeleteArtifact"}

\* the operation that has returned gives a value together with an error
ReturnedValueAndError == pc = "done" /\ op \notin ErrorOnlyOps

\* C21: an operation that returns a value and an error returns nil (the zero
\* value when the result is no pointer) whenever the error is non-nil, and a
\* pointer-returning operation returns a non-nil value whenever the error is
\* nil.
C21_ValueXorError ==
    ReturnedValueAndError
    => /\ ret.err # NoErr => ret.value = ZeroResult(op)
       /\ (ret.err = NoErr /\ op # "AdminAPI.GetGlobalRule") => ret.value.kind # "nil"

\* ListArtifactVersions was answered 200 with a body whose "count" is no
\* number: the decoder had filled part of the response when it failed
C21_Witness ==
    /\ ReturnedValueAndError
    /\ op = "VersionsAPI.ListArtifactVersions"
    /\ resp.status = StatusOK
    /\ resp.body = [text |-> BodyBadCount, readable |-> TRUE]
    /\ ret.err # NoErr
    /\ ret.value = Nil

\* ListArtifactVersions succeeded with a non-nil value
C21_WitnessValue ==
    /\ ReturnedValueAndError
    /\ op = "VersionsAPI.ListArtifactVersions"
    /\ ret.err = NoErr
    /\ ret.value.kind = "decoded"

\* the operation passed no target and was answered with the status it expects
EmptySuccess ==
    /\ Interpreted
    /\ op \in ErrorOnlyOps
    /\ resp.status = ExpectedStatus(op)

\* C22: an operation that passes no target to handleResponse and is answered
\* with the expected status returns a nil error and no value whatever the
\* body holds, and the body is not decoded (nothing is read from it).
C22_EmptySuccess ==
    EmptySuccess
    => /\ ret.err = NoErr
       /\ ret.value = Nil
       /\ ret.io.read = NotRead

\* DeleteArtifactVersion was answered 204 with a body that is no JSON
C22_Witness ==
    /\ EmptySuccess
    /\ op = "VersionsAPI.DeleteArtifactVersion"
    /\ resp.body = [text |-> BodyGarbage, readable |-> TRUE]
    /\ ret.err = NoErr

\* UpdateArtifactMetadata was answered 204 with a body that cannot be read
C22_WitnessUnreadable ==
    /\ EmptySuccess
    /\ op = "MetadataAPI.UpdateArtifactMetadata"
    /\ ~resp.body.readable
    /\ ret.err = NoErr

\* bodies that hold no JSON value at all: unreadable, empty, not JSON
NoJSONValue(body) == ~body.readable \/ body.text \in {BodyEmpty, BodyGarbage}

\* bodies that are JSON of another shape than the operation's target type: a
\* string where the struct has an int, an array for a struct, an object for
\* a slice
MistypedBodies ==
    {[op |-> "VersionsAPI.ListArtifactVersions", text |-> BodyBadCount],
     [op |-> "VersionsAPI.ListArtifactVersions", text |-> BodyReferences],
     [op |-> "VersionsAPI.SearchForArtifactVersionByContent", text |-> BodyBadCount],
     [op |-> "VersionsAPI.GetArtifactVersionReferences", text |-> BodyMetadata],
     [op |-> "MetadataAPI.GetArtifactVersionMetadata", text |-> BodyReferences],
     [op |-> "ArtifactsAPI.CreateArtifact", text |-> BodyReferences],
     [op |-> "ArtifactsAPI.SearchArtifactsByContent", text |-> BodyReferences],
     [op |-> "AdminAPI.GetGlobalRule", text |-> BodyReferences]}

\* the operation passed a target to handleResponse, the status was the
\* expected one and the body cannot be decoded into the target
UndecodableSuccess ==
    /\ Answered
    /\ ret.io.via = "handleResponse"
    /\ op \notin ErrorOnlyOps
    /\ resp.status = ExpectedStatus(op)
    /\ \/ NoJSONValue(resp.body)
       \/ resp.body.readable /\ [op |-> op, text |-> resp.body.text] \in MistypedBodies

\* C23: for an operation that passes a target type, a response with the
\* expected status whose body cannot be decoded into the type yields an error
\* labelled "failed to parse response body" that is no *models.APIError and
\* not the "unexpected server error" outcome, and no value.
C23_FailedToParse ==
    UndecodableSuccess
    => /\ ret.err # NoErr
       /\ Label(ret.err) = "failed to parse response body"
       /\ \A i \in 1..Len(ret.err.chain) : ret.err.chain[i] # "unexpected server error"
       /\ ~AsAPIError(ret.err)
       /\ ret.value = ZeroResult(op)

\* ListArtifactVersions answered 200 with a "count" that is a string
C23_Witness ==
    /\ UndecodableSuccess
    /\ op = "VersionsAPI.ListArtifactVersions"
    /\ resp.body = [text |-> BodyBadCount, readable |-> TRUE]
    /\ Label(ret.err) = "failed to parse response body"
    /\ ret.err.type = "json.UnmarshalTypeError"

\* GetGlobalRule answered 200 with an empty body
C23_WitnessEmpty ==
    /\ UndecodableSuccess
    /\ op = "AdminAPI.GetGlobalRule"
    /\ resp.body = [text |-> BodyEmpty, readable |-> TRUE]
    /\ ret.err.type = "io.EOF"

-----------------------------------------------------------------------------
(* Properties of the shared client, checked under SpecShared *)

\* everything the model holds about the call of caller k
CallOf(k) == <<pc[k], op[k], args[k], req[k], sends[k], resp[k], ret[k]>>

\* the request of caller k carries the configuration of the client
SeesConfiguration(k) ==
    /\ req[k].url[1] = client.BaseURL
    /\ req[k].Authorization =
           IF client.AuthHeader = "" THEN NoHeader ELSE client.AuthHeader

\* callers that made the same call get the same request, and the same result
\* once they were given the same response
SameCallSameOutcome(j, k) ==
    (op[j] = op[k] /\ args[j] = args[k] /\ sends[j] = 1 /\ sends[k] = 1)
    => /\ req[j] = req[k]
       /\ (pc[j] = "done" /\ pc[k] = "done" /\ resp[j] = resp[k]) => ret[j] = ret[k]

\* C24: no step of an operation changes BaseURL, HTTPClient or AuthHeader of
\* the client; under every interleaving of the calls of several callers a
\* step of one caller leaves the calls of the others as they were, every
\* request carries the client's configuration, and callers that made the
\* same call and got the same response get the same result.
C24_SharedClient ==
    /\ [][/\ client' = client
          /\ \A j \in Callers : \A k \in Callers \ {j} :
                 CallOf(j)' = CallOf(j) \/ CallOf(k)' = CallOf(k)]_vars
    /\ [](\A j \in Callers : sends[j] = 1 => SeesConfiguration(j))
    /\ [](\A j \in Callers : \A k \in Callers : SameCallSameOutcome(j, k))

\* two callers have requests in flight at once, for different groups, on a
\* client with an authorization header
C24_Witness ==
    /\ pc[1] = "sent"
    /\ pc[2] = "sent"
    /\ args[1].groupID # args[2].groupID
    /\ client.AuthHeader # ""
    /\ req[1].Authorization = client.AuthHeader
    /\ req[2].Authorization = client.AuthHeader

\* one caller has its answer while the other's same call is still in flight
C24_WitnessOverlap ==
    /\ pc[1] = "done"
    /\ resp[1].status = StatusOK
    /\ ret[1].err = NoErr
    /\ pc[2] = "sent"
    /\ op[2] = op[1]
    /\ args[2] = args[1]

\* callers j and k both issued the read-only ListArtifactVersions with the
\* same arguments and the backend answered both the same
IssuedTwice(j, k) ==
    /\ j # k
    /\ pc[j] = "done" /\ pc[k] = "done"
    /\ op[j] = "VersionsAPI.ListArtifactVersions" /\ op[k] = op[j]
    /\ args[j] = args[k]
    /\ sends[j] = 1 /\ sends[k] = 1
    /\ resp[j] = resp[k]

C25_WitnessError ==
    /\ IssuedTwice(1, 2)
    /\ resp[1].status = StatusMethodNotAllowed
    /\ AsAPIError(ret[1].err)
    /\ AsAPIError(ret[2].err)

-----------------------------------------------------------------------------
(* Properties of NewClient, checked under SpecNewClient *)

\* the positions of the options of one kind in the argument list
OptionsOfKind(kind) == {i \in 1..Len(nc.options) : nc.options[i].option = kind}

\* the last position of a set of positions that is not empty
Last(positions) == CHOOSE i \in positions : \A j \in positions : j <= i

\* C26: NewClient(baseURL, options...) returns a client with BaseURL =
\* baseURL; its HTTPClient is the client of the last WithHTTPClient option,
\* and the default client with a 30 second timeout when there is none; its
\* AuthHeader is the header of the last WithAuthHeader option, and empty when
\* there is none.
C26_NewClient ==
    nc.done
    => /\ client.BaseURL = nc.baseURL
       /\ IF OptionsOfKind("WithHTTPClient") = {}
          THEN /\ client.HTTPClient # nilHTTPClient
               /\ client.HTTPClient.name = "default"
               /\ client.HTTPClient.Timeout = DefaultTimeout
          ELSE client.HTTPClient =
                   nc.options[Last(OptionsOfKind("WithHTTPClient"))].httpClient
       /\ IF OptionsOfKind("WithAuthHeader") = {}
          THEN client.AuthHeader = ""
          ELSE client.AuthHeader =
                   nc.options[Last(OptionsOfKind("WithAuthHeader"))].authHeader

\* NewClient was called with two WithAuthHeader options and kept the second
C26_Witness ==
    /\ nc.done
    /\ nc.options = <<WithAuthHeader("Bearer test-token"), WithAuthHeader("Basic dXNlcjpwdw==")>>
    /\ client.AuthHeader = "Basic dXNlcjpwdw=="
    /\ client.HTTPClient = defaultHTTPClient

\* NewClient was called with a custom client and then a header
C26_WitnessCustom ==
    /\ nc.done
    /\ nc.options = <<WithHTTPClient(customHTTPClient), WithAuthHeader("Bearer test-token")>>
    /\ client.HTTPClient = customHTTPClient
    /\ client.AuthHeader = "Bearer test-token"

\* NewClient was called with no option
C26_WitnessDefaults ==
    /\ nc.done
    /\ nc.options = <<>>
    /\ client = [BaseURL |-> nc.baseURL, HTTPClient |-> defaultHTTPClient, AuthHeader |-> ""]

-----------------------------------------------------------------------------
(* Properties of the request body, checked under Spec *)

\* C27: the request of an operation that passes a nil body to executeRequest
\* reaches the transport with an absent, zero-length body.
C27_NoBody ==
    (sends = 1 /\ args.body = NilBody) => req.body = ""

\* C28: the request body of ArtifactsAPI.SearchArtifactsByContent is the
\* caller's content, byte for byte, and no JSON or base64 encoding of it.
C28_ContentUnchanged ==
    (sends = 1 /\ op = "ArtifactsAPI.SearchArtifactsByContent")
    => req.body = args.body.data

\* C29: handleResponse and handleRawResponse have read the response body to
\* its end when they return, on every path.
C29_BodyDrained ==
    Interpreted => ret.io.read = ReadToEnd

\* the characters that end a path segment of a URL
Separators == {"/", "?", "#"}

\* C30: every identifier that passes validation occupies exactly one path
\* segment of the URL the request goes to: no character the caller supplied
\* is a '/', '?' or '#' of the URL.  (The fixed segments and the base URL are
\* single elements of req.url; the caller's characters are elements of their
\* own.)
C30_OneSegment ==
    sends = 1 => \A i \in 1..Len(req.url) : req.url[i] \notin Separators

=============================================================================
